---- MODULE Spec2Model ----
(***************************************************************************)
(* The tiered artifact cache of monbot (src/monbot/cache2.py): the         *)
(* in-memory LRU tier (_LRU), the disk tier (one blob file and one         *)
(* metadata file per key), the per-key asyncio locks, the janitor task and *)
(* the two operations get_or_produce and remember_file_id.                 *)
(*                                                                         *)
(* Scheduling is asyncio's: a coroutine runs without interruption between  *)
(* two awaits.  get_or_produce suspends only when it waits for a contended *)
(* lock and while the producer runs in its worker thread; remember_file_id *)
(* and a janitor pass never suspend.  Each action below is one such        *)
(* uninterrupted stretch of code.                                          *)
(***************************************************************************)
EXTENDS Integers, Sequences, FiniteSets, TLC

\* ------------------------------------------------------------- bounds
\* Number of get_or_produce calls that can be in progress at once.
NumCalls == 2
\* The clock stops after MaxTime ticks.
MaxTime == 1
\* Number of janitor tasks that can be pending at once.
MaxJanitors == 1
\* The last_used_ts values of the files a janitor pass finds are 0..MaxStamp.
MaxStamp == 2
\* Number of items of a key_parts dict, and of a dict nested in it.
MaxItems == 2
\* Number of janitor tasks that productions have left pending when the
\* passes start.
MaxPasses == 2

\* ------------------------------------------------------------ domains
None == "None"
Keys == {"A", "B"}
L1Keys == {"A", "B", "C"}
TTLs == {1, 2}
Handles == {"h1", "h2"}
Blobs == {"x", "big"}
Errors == {"E1", "E2"}
Calls == 1..NumCalls

\* len(data) of the byte strings the producers return
ByteLen(d) ==
  CASE d = "s" -> 30
    [] d = "x" -> 60
    [] d = "big" -> 120
    [] OTHER -> 0

\* The byte caps the cache is constructed with:
\* ImageCache2(cache_dir, l1_max_bytes, l2_max_bytes)
l1_max_bytes == 100
l2_max_bytes == 100

VARIABLES
  now,        \* time.time()
  l1,         \* self.l1: [od: sequence of entries, oldest first; current_bytes]
  blob,       \* <digest>.png of each key: [exists, data, mtime]
  meta,       \* <digest>.json of each key
  locks,      \* self._locks: key -> lock object (0: no entry)
  calls,      \* the get_or_produce coroutines in progress, oldest first
  janitors,   \* janitor tasks created and not yet run
  ret,        \* the outcome of the latest operation, if it ended and no other
              \* operation has run since (janitor passes and the clock apart)
  done,       \* the calls of a burst that ended so far, oldest first
  burst,      \* 0, or the ttl of a burst of calls whose outcomes `done` keeps
  puts,       \* how many of the puts of 60 bytes under "A", "B", "C", in that
              \* order, the latest operations on L1 were
  tmp,        \* <digest>.tmp and <digest>.tmp.json of each key: [img, meta]
  parts       \* two key_parts mappings and what _key_str, _paths make of them

vars == <<now, l1, blob, meta, locks, calls, janitors, ret, done, burst, puts, tmp, parts>>

\* ------------------------------------------------------------ L1: _LRU
NoVal == [key |-> None, file_id |-> None, data |-> None, expiry_ts |-> 0, size |-> 0]

Has(od, key) == \E i \in 1..Len(od) : od[i].key = key

Entry(od, key) ==
  IF Has(od, key) THEN od[CHOOSE i \in 1..Len(od) : od[i].key = key] ELSE NoVal

Without(od, key) == SelectSeq(od, LAMBDA e : e.key # key)

\* _LRU.get that drops an entry it finds expired
lru_get_DropsStale(l, key) ==
  IF ~Has(l.od, key)
    THEN [found |-> FALSE, val |-> NoVal, l |-> l]
  ELSE IF Entry(l.od, key).expiry_ts <= now
    THEN [found |-> FALSE, val |-> NoVal,
          l |-> [od |-> Without(l.od, key),
                 current_bytes |-> l.current_bytes - Entry(l.od, key).size]]
  ELSE [found |-> TRUE, val |-> Entry(l.od, key),
        l |-> [l EXCEPT !.od = Append(Without(l.od, key), Entry(l.od, key))]]

\* _LRU.get without move_to_end
lru_get_NoMove(l, key) ==
  IF ~Has(l.od, key)
    THEN [found |-> FALSE, val |-> NoVal, l |-> l]
    ELSE [found |-> TRUE, val |-> Entry(l.od, key), l |-> l]

\* _LRU.get: the value (found or not) and the LRU after move_to_end
lru_get(l, key) ==
  IF ~Has(l.od, key)
    THEN [found |-> FALSE, val |-> NoVal, l |-> l]
    ELSE [found |-> TRUE, val |-> Entry(l.od, key),
          l |-> [l EXCEPT !.od = Append(Without(l.od, key), Entry(l.od, key))]]

\* _evict that never pops the entry just put
RECURSIVE evict_KeepsNewest(_)
evict_KeepsNewest(l) ==
  IF l.current_bytes > l1_max_bytes /\ Len(l.od) > 1
    THEN evict_KeepsNewest([od |-> Tail(l.od),
                            current_bytes |-> l.current_bytes - Head(l.od).size])
    ELSE l

\* _evict that pops the newest entry first
RECURSIVE evict_NewestFirst(_)
evict_NewestFirst(l) ==
  IF l.current_bytes > l1_max_bytes /\ l.od # <<>>
    THEN evict_NewestFirst([od |-> SubSeq(l.od, 1, Len(l.od) - 1),
                            current_bytes |-> l.current_bytes - l.od[Len(l.od)].size])
    ELSE l

RECURSIVE evict(_)
evict(l) ==
  IF l.current_bytes > l1_max_bytes /\ l.od # <<>>
    THEN evict([od |-> Tail(l.od), current_bytes |-> l.current_bytes - Head(l.od).size])
    ELSE l

\* _LRU.put that replaces an entry without subtracting its old size
lru_put_NoSubtract(l, key, file_id, data, expiry_ts) ==
  LET size == IF data # None THEN ByteLen(data) ELSE 0
      val == [key |-> key, file_id |-> file_id, data |-> data,
              expiry_ts |-> expiry_ts, size |-> size]
  IN evict([od |-> Append(Without(l.od, key), val), current_bytes |-> l.current_bytes + size])

\* _LRU.put without the call of _evict
lru_put_NoEvict(l, key, file_id, data, expiry_ts) ==
  LET size == IF data # None THEN ByteLen(data) ELSE 0
      popped == IF Has(l.od, key)
                  THEN [od |-> Without(l.od, key),
                        current_bytes |-> l.current_bytes - Entry(l.od, key).size]
                  ELSE l
      val == [key |-> key, file_id |-> file_id, data |-> data,
              expiry_ts |-> expiry_ts, size |-> size]
  IN [od |-> Append(popped.od, val), current_bytes |-> popped.current_bytes + size]

lru_put(l, key, file_id, data, expiry_ts) ==
  LET size == IF data # None THEN ByteLen(data) ELSE 0
      popped == IF Has(l.od, key)
                  THEN [od |-> Without(l.od, key),
                        current_bytes |-> l.current_bytes - Entry(l.od, key).size]
                  ELSE l
      val == [key |-> key, file_id |-> file_id, data |-> data,
              expiry_ts |-> expiry_ts, size |-> size]
  IN evict([od |-> Append(popped.od, val), current_bytes |-> popped.current_bytes + size])

\* set_file_id that puts the handle in the place of the bytes
set_file_id_DropsBytes(l, key, file_id) ==
  IF ~Has(l.od, key)
    THEN l
    ELSE [l EXCEPT !.od = Append(Without(l.od, key),
                                 [Entry(l.od, key) EXCEPT !.file_id = file_id, !.data = None])]

set_file_id(l, key, file_id) ==
  IF ~Has(l.od, key)
    THEN l
    ELSE [l EXCEPT !.od = Append(Without(l.od, key),
                                 [Entry(l.od, key) EXCEPT !.file_id = file_id])]

\* _is_fresh with the comparison turned round
is_fresh_Reversed(expiry_ts) == expiry_ts < now

is_fresh(expiry_ts) == now < expiry_ts

\* Python's truth value of an Optional[str]
Truthy(s) == s # None /\ s # ""

\* ------------------------------------------------------- L2: the files
NoBlob == [exists |-> FALSE, data |-> None, mtime |-> 0]

\* full: the record has the byte_len and created_ts keys (a record that
\* remember_file_id started from {} has not); torn: the file's text is not
\* the whole JSON text of a record, json.loads raises on it
NoMeta == [exists |-> FALSE, expiry_ts |-> 0, file_id |-> None, full |-> FALSE,
           byte_len |-> 0, created_ts |-> 0, last_used_ts |-> 0, torn |-> FALSE]

\* the record get_or_produce writes with the bytes it produced
StoredMeta(data, expiry_ts, created_ts, last_used_ts) ==
  [exists |-> TRUE, expiry_ts |-> expiry_ts, file_id |-> None, full |-> TRUE,
   byte_len |-> ByteLen(data), created_ts |-> created_ts, last_used_ts |-> last_used_ts,
   torn |-> FALSE]

\* a metadata file that open() has truncated and whose text is not written,
\* or not to its end
TornMeta == [NoMeta EXCEPT !.exists = TRUE, !.torn = TRUE]

\* the temporary files of a key: img is None (no file), "partial" (written
\* in part) or the bytes written; meta is a record file like <digest>.json
NoTmp == [img |-> None, meta |-> NoMeta]

CacheResult(file_id, data, path) == [file_id |-> file_id, data |-> data, path |-> path]

NoResult == CacheResult(None, None, None)

\* the L1 probe that prefers the bytes to the handle
L1Lookup_BytesFirst(l, key) ==
  LET g == lru_get(l, key)
  IN IF g.found /\ is_fresh(g.val.expiry_ts) /\ g.val.data # None
       THEN [hit |-> TRUE, res |-> CacheResult(None, g.val.data, None),
             exp |-> g.val.expiry_ts, l |-> g.l]
     ELSE IF g.found /\ is_fresh(g.val.expiry_ts) /\ Truthy(g.val.file_id)
       THEN [hit |-> TRUE, res |-> CacheResult(g.val.file_id, None, None),
             exp |-> g.val.expiry_ts, l |-> g.l]
     ELSE [hit |-> FALSE, res |-> NoResult, exp |-> 0, l |-> g.l]

\* get_or_produce, "# L1": the result of the probe and the LRU after it
L1Lookup(l, key) ==
  LET g == lru_get(l, key)
  IN IF g.found /\ is_fresh(g.val.expiry_ts) /\ Truthy(g.val.file_id)
       THEN [hit |-> TRUE, res |-> CacheResult(g.val.file_id, None, None),
             exp |-> g.val.expiry_ts, l |-> g.l]
     ELSE IF g.found /\ is_fresh(g.val.expiry_ts) /\ g.val.data # None
       THEN [hit |-> TRUE, res |-> CacheResult(None, g.val.data, None),
             exp |-> g.val.expiry_ts, l |-> g.l]
     ELSE [hit |-> FALSE, res |-> NoResult, exp |-> 0, l |-> g.l]

\* the L2 probe without the promotion into L1
L2Lookup_NoPromote(l, b, m, key) ==
  IF b[key].exists /\ m[key].exists /\ ~m[key].torn /\ is_fresh(m[key].expiry_ts)
    THEN LET touched == [m EXCEPT ![key].last_used_ts = now]
         IN IF Truthy(m[key].file_id)
              THEN [hit |-> TRUE, read |-> FALSE, meta |-> touched, exp |-> m[key].expiry_ts,
                    res |-> CacheResult(m[key].file_id, None, "img"), l |-> l]
              ELSE [hit |-> TRUE, read |-> TRUE, meta |-> touched, exp |-> m[key].expiry_ts,
                    res |-> CacheResult(None, b[key].data, "img"), l |-> l]
    ELSE [hit |-> FALSE, read |-> FALSE, meta |-> m, exp |-> 0, res |-> NoResult, l |-> l]

\* get_or_produce, "# L2" before the lock: a fresh record has its
\* last_used_ts rewritten, and the entry is promoted into L1
L2Lookup(l, b, m, key) ==
  IF b[key].exists /\ m[key].exists /\ ~m[key].torn /\ is_fresh(m[key].expiry_ts)
    THEN LET touched == [m EXCEPT ![key].last_used_ts = now]
         IN IF Truthy(m[key].file_id)
              THEN [hit |-> TRUE, read |-> FALSE, meta |-> touched, exp |-> m[key].expiry_ts,
                    res |-> CacheResult(m[key].file_id, None, "img"),
                    l |-> lru_put(l, key, m[key].file_id, None, m[key].expiry_ts)]
              ELSE [hit |-> TRUE, read |-> TRUE, meta |-> touched, exp |-> m[key].expiry_ts,
                    res |-> CacheResult(None, b[key].data, "img"),
                    l |-> lru_put(l, key, None, b[key].data, m[key].expiry_ts)]
    ELSE [hit |-> FALSE, read |-> FALSE, meta |-> m, exp |-> 0, res |-> NoResult, l |-> l]

\* the L2 re-check that serves the blob whatever the metadata record
L2Recheck_TrustsBlob(l, b, m, key) ==
  IF b[key].exists
    THEN [hit |-> TRUE, read |-> TRUE, meta |-> m, exp |-> m[key].expiry_ts,
          res |-> CacheResult(None, b[key].data, "img"),
          l |-> lru_put(l, key, None, b[key].data, m[key].expiry_ts)]
    ELSE [hit |-> FALSE, read |-> FALSE, meta |-> m, exp |-> 0, res |-> NoResult, l |-> l]

\* the L2 re-check without the test of the expiry
L2Recheck_IgnoresExpiry(l, b, m, key) ==
  IF b[key].exists /\ m[key].exists /\ ~m[key].torn
    THEN IF Truthy(m[key].file_id)
           THEN [hit |-> TRUE, read |-> FALSE, meta |-> m, exp |-> m[key].expiry_ts,
                 res |-> CacheResult(m[key].file_id, None, "img"),
                 l |-> lru_put(l, key, m[key].file_id, None, m[key].expiry_ts)]
           ELSE [hit |-> TRUE, read |-> TRUE, meta |-> m, exp |-> m[key].expiry_ts,
                 res |-> CacheResult(None, b[key].data, "img"),
                 l |-> lru_put(l, key, None, b[key].data, m[key].expiry_ts)]
    ELSE [hit |-> FALSE, read |-> FALSE, meta |-> m, exp |-> 0, res |-> NoResult, l |-> l]

\* an L2 re-check that finds nothing
L2Recheck_NeverHits(l, b, m, key) ==
  [hit |-> FALSE, read |-> FALSE, meta |-> m, exp |-> 0, res |-> NoResult, l |-> l]

\* get_or_produce, the L2 re-check inside the lock: no last_used_ts update
L2Recheck(l, b, m, key) ==
  IF b[key].exists /\ m[key].exists /\ ~m[key].torn /\ is_fresh(m[key].expiry_ts)
    THEN IF Truthy(m[key].file_id)
           THEN [hit |-> TRUE, read |-> FALSE, meta |-> m, exp |-> m[key].expiry_ts,
                 res |-> CacheResult(m[key].file_id, None, "img"),
                 l |-> lru_put(l, key, m[key].file_id, None, m[key].expiry_ts)]
           ELSE [hit |-> TRUE, read |-> TRUE, meta |-> m, exp |-> m[key].expiry_ts,
                 res |-> CacheResult(None, b[key].data, "img"),
                 l |-> lru_put(l, key, None, b[key].data, m[key].expiry_ts)]
    ELSE [hit |-> FALSE, read |-> FALSE, meta |-> m, exp |-> 0, res |-> NoResult, l |-> l]

\* ------------------------------------------------------ asyncio.Lock
\* A Lock object is named by a number.  Its state follows from the calls
\* that refer to it: it is locked while its holder awaits the producer (a
\* holder never suspends elsewhere), and its waiters are the calls suspended
\* in acquire(), in the order they arrived.  release() wakes the first
\* waiter, which takes the lock when the loop next runs it; until then the
\* lock is unlocked with a waiter.
Locked(cs, id) == \E i \in 1..Len(cs) : cs[i].lock = id /\ cs[i].pc \in {"locked", "producing"}

HasWaiters(cs, id) == \E i \in 1..Len(cs) : cs[i].lock = id /\ cs[i].pc = "waiting"

\* Lock.acquire() succeeds at once iff the lock is free and nobody waits
CanAcquire(cs, id) == ~Locked(cs, id) /\ ~HasWaiters(cs, id)

\* the head of the lock's waiters
FirstWaiter(cs, id, i) ==
  /\ cs[i].lock = id /\ cs[i].pc = "waiting"
  /\ \A j \in 1..(i - 1) : ~(cs[j].lock = id /\ cs[j].pc = "waiting")

\* The Lock objects in use; a new one gets the next number, and the numbers
\* are closed up when an object is dropped.
UsedLocks(cs, tbl) == ({cs[i].lock : i \in 1..Len(cs)} \cup {tbl[k] : k \in Keys}) \ {0}

NewLockId(cs, tbl) == Cardinality(UsedLocks(cs, tbl)) + 1

Rank(S, id) == IF id = 0 THEN 0 ELSE Cardinality({x \in S : x <= id})

\* setdefault on a table that has one Lock object for all the keys
setdefault_OneLock(tbl, key, fresh) ==
  IF tbl[key] # 0 THEN tbl
  ELSE IF \E k \in Keys : tbl[k] # 0
    THEN [tbl EXCEPT ![key] = tbl[CHOOSE k \in Keys : tbl[k] # 0]]
  ELSE [tbl EXCEPT ![key] = fresh]

\* self._locks.setdefault(key, asyncio.Lock()): the table after it, `fresh`
\* being the new Lock object
setdefault(tbl, key, fresh) == IF tbl[key] = 0 THEN [tbl EXCEPT ![key] = fresh] ELSE tbl

\* a finally block that never drops the table entry
FinallyPop_Keeps(tbl, key, id, locked) == tbl

\* get_or_produce's finally: drop the table entry if it is this call's lock
\* and the lock is not locked
FinallyPop(tbl, key, id, locked) ==
  IF tbl[key] = id /\ ~locked THEN [tbl EXCEPT ![key] = 0] ELSE tbl

\* ----------------------------------------------------------- the calls
\* A call in progress: pc is "waiting" (suspended in acquire), "locked"
\* (running with the lock) or "producing" (awaiting the producer's thread).
Call(pc, key, expiry_ts, lock) ==
  [pc |-> pc, key |-> key, expiry_ts |-> expiry_ts, lock |-> lock]

\* The outcome of an operation.  Of get_or_produce: pc "done" with the
\* CacheResult, or pc "failed" with the exception; exp: the expiry of the
\* entry the result came from (the one written, when the call produced);
\* invoked: the call ran the producer; readBlob: the call read the blob file.
\* Of remember_file_id: pc "remembered", the file_id in res, exp its expiry.
Ret(pc, key, exp, res, err, invoked, readBlob) ==
  [pc |-> pc, key |-> key, exp |-> exp, res |-> res, err |-> err,
   invoked |-> invoked, readBlob |-> readBlob]

NoRet == Ret("none", None, 0, NoResult, None, FALSE, FALSE)

\* ---------------------------------------------- _key_str, _digest, _paths
\* A key_parts dict is the sequence of its items in insertion order, each
\* [k, v] with a key of its own; a value is a scalar or a dict of scalars.
Scalar(x) == [scalar |-> x, items |-> <<>>]
Nested(ps) == [scalar |-> None, items |-> ps]

\* the code point of a key's character: sort_keys compares the keys as str
code(k) == CASE k = "a" -> 97 [] k = "b" -> 98 [] k = "c" -> 99

\* sorted(items, key=k)
SortedItems(ps) ==
  [i \in 1..Len(ps) |->
     ps[CHOOSE j \in 1..Len(ps) :
          Cardinality({m \in 1..Len(ps) : code(ps[m].k) < code(ps[j].k)}) = i - 1]]

\* json.dumps without sort_keys: the items in insertion order
key_str_Unsorted(ps) == ps

\* json.dumps(parts, sort_keys=True, separators=(",", ":")): the text, as
\* the sequence of its "key":value members; the members of every dict,
\* nested ones included, come in the order of their keys
key_str(ps) ==
  LET top == SortedItems(ps)
  IN [i \in 1..Len(top) |->
        [k |-> top[i].k,
         v |-> [scalar |-> top[i].v.scalar, items |-> SortedItems(top[i].v.items)]]]

\* hashlib.sha1(s.encode("utf-8")).hexdigest(), taken as free of collisions
digest(text) == [sha1 |-> text]

\* _paths: the blob's and the record's file names
paths(key) == [img |-> [stem |-> digest(key), suffix |-> ".png"],
               meta |-> [stem |-> digest(key), suffix |-> ".json"]]

\* no key_parts looked at
NoParts == [p |-> <<>>, q |-> <<>>, pkey |-> <<>>, qkey |-> <<>>,
            ppaths |-> paths(<<>>), qpaths |-> paths(<<>>), applied |-> FALSE]

RemoveAt(cs, i) == [j \in 1..(Len(cs) - 1) |-> IF j < i THEN cs[j] ELSE cs[j + 1]]

InitCache ==
  /\ now = 0
  /\ l1 = [od |-> <<>>, current_bytes |-> 0]
  /\ blob = [k \in Keys |-> NoBlob]
  /\ meta = [k \in Keys |-> NoMeta]
  /\ locks = [k \in Keys |-> 0]
  /\ calls = <<>>
  /\ janitors = 0
  /\ ret = NoRet
  /\ done = <<>>
  /\ puts = 0
  /\ tmp = [k \in Keys |-> NoTmp]
  /\ parts = NoParts

Init == InitCache /\ burst = 0

\* A call ends and gives r to its caller
End(r) ==
  /\ ret' = r
  /\ done' = IF burst # 0 THEN Append(done, r) ELSE done

\* Call i returns or raises inside "async with lock": the lock is released,
\* then the finally block runs.
ReturnInLock(cs, i, r, tbl) ==
  LET rest == RemoveAt(cs, i)
      tbl2 == FinallyPop(tbl, cs[i].key, cs[i].lock, Locked(rest, cs[i].lock))
      used == UsedLocks(rest, tbl2)
  IN /\ End(r)
     /\ calls' = [j \in 1..Len(rest) |-> [rest[j] EXCEPT !.lock = Rank(used, @)]]
     /\ locks' = [k \in Keys |-> Rank(used, tbl2[k])]

\* InLock without the re-check: the producer starts at once
InLock_NoRecheck(cs, i, l, tbl) ==
  /\ UNCHANGED meta
  /\ l1' = l
  /\ calls' = [cs EXCEPT ![i].pc = "producing"]
  /\ locks' = tbl
  /\ ret' = NoRet
  /\ done' = done

\* The code call i runs once it holds its lock: the re-check, then either a
\* return or the start of the producer in its thread.
InLock(cs, i, l, tbl) ==
  LET key == cs[i].key
      r1 == L1Lookup(l, key)
      r2 == L2Recheck(r1.l, blob, meta, key)
  IN /\ UNCHANGED meta
     /\ IF r1.hit
          THEN /\ l1' = r1.l
               /\ ReturnInLock(cs, i, Ret("done", key, r1.exp, r1.res, None, FALSE, FALSE), tbl)
        ELSE IF r2.hit
          THEN /\ l1' = r2.l
               /\ ReturnInLock(cs, i, Ret("done", key, r2.exp, r2.res, None, FALSE, r2.read), tbl)
        ELSE /\ l1' = r2.l
             /\ calls' = [cs EXCEPT ![i].pc = "producing"]
             /\ locks' = tbl
             /\ ret' = NoRet
             /\ done' = done

\* get_or_produce from its first line to its first suspension (or return)
Start(key, ttl) ==
  /\ Len(calls) + Len(done) < NumCalls
  /\ UNCHANGED <<now, blob, janitors, burst, puts, tmp, parts>>
  /\ LET expiry_ts == now + ttl
         p1 == L1Lookup(l1, key)
         p2 == L2Lookup(p1.l, blob, meta, key)
         tbl == setdefault(locks, key, NewLockId(calls, locks))
         id == tbl[key]
     IN IF p1.hit
          THEN /\ l1' = p1.l
               /\ End(Ret("done", key, p1.exp, p1.res, None, FALSE, FALSE))
               /\ UNCHANGED <<meta, locks, calls>>
        ELSE IF p2.hit
          THEN /\ l1' = p2.l
               /\ meta' = p2.meta
               /\ End(Ret("done", key, p2.exp, p2.res, None, FALSE, p2.read))
               /\ UNCHANGED <<locks, calls>>
        ELSE IF CanAcquire(calls, id)
          THEN InLock(Append(calls, Call("locked", key, expiry_ts, id)),
                      Len(calls) + 1, p1.l, tbl)
        ELSE /\ l1' = p1.l
             /\ calls' = Append(calls, Call("waiting", key, expiry_ts, id))
             /\ locks' = tbl
             /\ ret' = NoRet
             /\ UNCHANGED <<meta, done>>

\* a waiter that is resumed only while its lock is the one in the table
Resume_OnlyRegistered(i) ==
  /\ i <= Len(calls)
  /\ FirstWaiter(calls, calls[i].lock, i)
  /\ ~Locked(calls, calls[i].lock)
  /\ locks[calls[i].key] = calls[i].lock
  /\ UNCHANGED <<now, blob, janitors, burst, puts, tmp, parts>>
  /\ InLock([calls EXCEPT ![i].pc = "locked"], i, l1, locks)

\* The first waiter of a released lock takes the lock and runs on
Resume(i) ==
  /\ i <= Len(calls)
  /\ FirstWaiter(calls, calls[i].lock, i)
  /\ ~Locked(calls, calls[i].lock)
  /\ UNCHANGED <<now, blob, janitors, burst, puts, tmp, parts>>
  /\ InLock([calls EXCEPT ![i].pc = "locked"], i, l1, locks)

\* Produced without the janitor task
Produced_NoJanitor(i, data) ==
  /\ i <= Len(calls)
  /\ calls[i].pc = "producing"
  /\ janitors < MaxJanitors
  /\ blob' = [blob EXCEPT ![calls[i].key] = [exists |-> TRUE, data |-> data, mtime |-> now]]
  /\ meta' = [meta EXCEPT ![calls[i].key] = StoredMeta(data, calls[i].expiry_ts, now, now)]
  /\ l1' = lru_put(l1, calls[i].key, None, data, calls[i].expiry_ts)
  /\ janitors' = janitors
  /\ ReturnInLock(calls, i, Ret("done", calls[i].key, calls[i].expiry_ts,
                                CacheResult(None, data, "img"), None, TRUE, FALSE), locks)
  /\ tmp' = [tmp EXCEPT ![calls[i].key] = NoTmp]
  /\ UNCHANGED <<now, burst, puts, parts>>

\* The producer of call i returned data: the write to L2, the put into L1,
\* the janitor task, the return
Produced(i, data) ==
  /\ i <= Len(calls)
  /\ calls[i].pc = "producing"
  /\ janitors < MaxJanitors
  /\ blob' = [blob EXCEPT ![calls[i].key] = [exists |-> TRUE, data |-> data, mtime |-> now]]
  /\ meta' = [meta EXCEPT ![calls[i].key] = StoredMeta(data, calls[i].expiry_ts, now, now)]
  /\ l1' = lru_put(l1, calls[i].key, None, data, calls[i].expiry_ts)
  /\ janitors' = janitors + 1
  /\ ReturnInLock(calls, i, Ret("done", calls[i].key, calls[i].expiry_ts,
                                CacheResult(None, data, "img"), None, TRUE, FALSE), locks)
  /\ tmp' = [tmp EXCEPT ![calls[i].key] = NoTmp]
  /\ UNCHANGED <<now, burst, puts, parts>>

\* ProducerFails with a partial result cached: the failure leaves an entry
\* without bytes in L1
ProducerFails_CachesPartial(i, err) ==
  /\ i <= Len(calls)
  /\ calls[i].pc = "producing"
  /\ l1' = lru_put(l1, calls[i].key, None, None, calls[i].expiry_ts)
  /\ ReturnInLock(calls, i, Ret("failed", calls[i].key, 0, NoResult,
                                err, TRUE, FALSE), locks)
  /\ UNCHANGED <<now, blob, meta, janitors, burst, puts, tmp, parts>>

\* The producer of call i raised err: the exception leaves "async with"
\* (release) and the finally block, and reaches the caller
ProducerFails(i, err) ==
  /\ i <= Len(calls)
  /\ calls[i].pc = "producing"
  /\ UNCHANGED <<now, l1, blob, meta, janitors, burst, puts, tmp, parts>>
  /\ ReturnInLock(calls, i, Ret("failed", calls[i].key, 0, NoResult,
                                err, TRUE, FALSE), locks)

\* remember_file_id that updates L1 only
Remember_L1Only(key, file_id, ttl) ==
  /\ UNCHANGED <<now, blob, meta, locks, calls, janitors, done, burst, puts, tmp, parts>>
  /\ ret' = Ret("remembered", key, now + ttl, CacheResult(file_id, None, None),
                None, FALSE, FALSE)
  /\ l1' = set_file_id(l1, key, file_id)

\* remember_file_id
Remember(key, file_id, ttl) ==
  /\ UNCHANGED <<now, blob, locks, calls, janitors, done, burst, puts, parts>>
  /\ tmp' = [tmp EXCEPT ![key].meta = NoMeta]
  /\ ret' = Ret("remembered", key, now + ttl, CacheResult(file_id, None, None),
                None, FALSE, FALSE)
  /\ l1' = set_file_id(l1, key, file_id)
  /\ meta' = [meta EXCEPT ![key] =
                [(IF @.exists /\ ~@.torn THEN @ ELSE NoMeta) EXCEPT
                   !.exists = TRUE, !.file_id = file_id,
                   !.expiry_ts = now + ttl, !.last_used_ts = now]]

\* ---------------------------------------------------------- the janitor
\* int(0.9 * self.l2_max_bytes)
target == (9 * l2_max_bytes) \div 10

\* the janitor's last_used of a blob: the record's last_used_ts, or the
\* blob's st_mtime when there is no record or json.loads raises on it
last_used(b, m, key) ==
  IF m[key].exists /\ ~m[key].torn THEN m[key].last_used_ts ELSE b[key].mtime

RECURSIVE SumSizes(_, _)
SumSizes(b, ks) ==
  IF ks = {} THEN 0
  ELSE LET k == CHOOSE x \in ks : TRUE
       IN ByteLen(b[k].data) + SumSizes(b, ks \ {k})

\* the janitor's eviction loop over the sorted entries: unlink blob and
\* record, subtract the size, stop once total <= target
RECURSIVE unlink_until(_, _, _, _)
unlink_until(ord, total, b, m) ==
  IF ord = <<>> THEN [blob |-> b, meta |-> m]
  ELSE LET k == Head(ord)
           b2 == [b EXCEPT ![k] = NoBlob]
           m2 == [m EXCEPT ![k] = NoMeta]
           t2 == total - ByteLen(b[k].data)
       IN IF t2 <= target THEN [blob |-> b2, meta |-> m2]
          ELSE unlink_until(Tail(ord), t2, b2, m2)

\* entries.sort left out: the blobs in the order glob() listed them
SortedOrders_GlobOrder(b, m) ==
  LET ks == {k \in DOMAIN b : b[k].exists}
  IN {ord \in [1..Cardinality(ks) -> ks] :
        \A i, j \in 1..Cardinality(ks) : i # j => ord[i] # ord[j]}

\* the orders entries.sort(key=last_used) can give: the blobs oldest first,
\* equal last_used in the order glob() listed them (any order)
SortedOrders(b, m) ==
  LET ks == {k \in DOMAIN b : b[k].exists}
  IN {ord \in [1..Cardinality(ks) -> ks] :
        /\ \A i, j \in 1..Cardinality(ks) : i # j => ord[i] # ord[j]
        /\ \A i, j \in 1..Cardinality(ks) :
             i < j => last_used(b, m, ord[i]) <= last_used(b, m, ord[j])}

\* a janitor pass without the test of the cap: it evicts down to the target
\* whatever the total
Janitor_AlwaysEvicts ==
  /\ janitors > 0
  /\ janitors' = janitors - 1
  /\ LET total == SumSizes(blob, {k \in DOMAIN blob : blob[k].exists})
     IN IF total = 0
          THEN UNCHANGED <<blob, meta>>
          ELSE \E ord \in SortedOrders(blob, meta) :
                 /\ blob' = unlink_until(ord, total, blob, meta).blob
                 /\ meta' = unlink_until(ord, total, blob, meta).meta
  /\ UNCHANGED <<now, l1, locks, calls, ret, done, burst, puts, tmp, parts>>

\* a janitor pass that also sweeps the expired entries
Janitor_SweepsStale ==
  /\ janitors > 0
  /\ janitors' = janitors - 1
  /\ blob' = [k \in DOMAIN blob |->
               IF blob[k].exists /\ meta[k].exists /\ ~is_fresh(meta[k].expiry_ts)
                 THEN NoBlob ELSE blob[k]]
  /\ meta' = [k \in DOMAIN meta |->
               IF blob[k].exists /\ meta[k].exists /\ ~is_fresh(meta[k].expiry_ts)
                 THEN NoMeta ELSE meta[k]]
  /\ UNCHANGED <<now, l1, locks, calls, ret, done, burst, puts, tmp, parts>>

\* one janitor pass (it never suspends: its lock is always free)
Janitor ==
  /\ janitors > 0
  /\ janitors' = janitors - 1
  /\ LET total == SumSizes(blob, {k \in DOMAIN blob : blob[k].exists})
     IN IF total <= l2_max_bytes
          THEN UNCHANGED <<blob, meta>>
          ELSE \E ord \in SortedOrders(blob, meta) :
                 /\ blob' = unlink_until(ord, total, blob, meta).blob
                 /\ meta' = unlink_until(ord, total, blob, meta).meta
  /\ UNCHANGED <<now, l1, locks, calls, ret, done, burst, puts, tmp, parts>>

Tick ==
  /\ now < MaxTime
  /\ now' = now + 1
  /\ UNCHANGED <<l1, blob, meta, locks, calls, janitors, ret, done, burst, puts, tmp, parts>>

\* The cache used for one key: every operation, at any time
Next ==
  \/ \E ttl \in TTLs : Start("A", ttl)
  \/ \E i \in Calls : Resume(i)
  \/ \E i \in Calls, data \in Blobs : Produced(i, data)
  \/ \E i \in Calls, err \in Errors : ProducerFails(i, err)
  \/ \E file_id \in Handles, ttl \in TTLs : Remember("A", file_id, ttl)
  \/ Janitor
  \/ Tick

Spec == Init /\ [][Next]_vars

\* The cache used for two keys, the calls one at a time and with one ttl
NextKeys ==
  \/ \E key \in Keys : calls = <<>> /\ Start(key, 1)
  \/ \E i \in Calls, data \in Blobs : Produced(i, data)
  \/ \E i \in Calls, err \in Errors : ProducerFails(i, err)
  \/ \E key \in Keys, file_id \in Handles : Remember(key, file_id, 1)
  \/ Janitor
  \/ Tick

SpecKeys == Init /\ [][NextKeys]_vars

\* A burst of calls with one key and one ttl, all started before any of
\* them ended (so on an empty cache), with a producer that succeeds
InitBurst == InitCache /\ burst \in TTLs

NextBurst ==
  \/ done = <<>> /\ Start("A", burst)
  \/ \E i \in Calls : Resume(i)
  \/ \E i \in Calls, data \in Blobs : Produced(i, data)
  \/ Janitor
  \/ Tick

SpecBurst == InitBurst /\ [][NextBurst]_vars

\* The memory tier by itself: any sequence of its operations.  `puts`
\* follows the puts of 60 bytes under "A", "B", "C" in that order.
PutsAfter(key, data) ==
  IF ByteLen(data) # 60 THEN 0
  ELSE IF key = "A" THEN 1
  ELSE IF key = "B" /\ puts = 1 THEN 2
  ELSE IF key = "C" /\ puts = 2 THEN 3
  ELSE 0

L1Get(key) ==
  /\ l1' = lru_get(l1, key).l
  /\ puts' = 0
  /\ UNCHANGED <<now, blob, meta, locks, calls, janitors, ret, done, burst, tmp, parts>>

L1Put(key, file_id, data, expiry_ts) ==
  /\ l1' = lru_put(l1, key, file_id, data, expiry_ts)
  /\ puts' = PutsAfter(key, data)
  /\ UNCHANGED <<now, blob, meta, locks, calls, janitors, ret, done, burst, tmp, parts>>

L1SetFileId(key, file_id) ==
  /\ l1' = set_file_id(l1, key, file_id)
  /\ puts' = 0
  /\ UNCHANGED <<now, blob, meta, locks, calls, janitors, ret, done, burst, tmp, parts>>

NextL1 ==
  \/ \E key \in L1Keys : L1Get(key)
  \/ \E key \in L1Keys, file_id \in {None} \cup Handles, data \in {None} \cup Blobs :
       L1Put(key, file_id, data, 1)
  \/ \E key \in L1Keys, file_id \in Handles : L1SetFileId(key, file_id)

SpecL1 == Init /\ [][NextL1]_vars

\* The memory tier by itself, with entries of several sizes, expired (expiry
\* 0) or not; ret keeps what the latest operation was and, of a get, what it
\* returned.
LruBlobs == {"s", "x", "big"}

LruGet(key) ==
  /\ l1' = lru_get(l1, key).l
  /\ ret' = IF lru_get(l1, key).found
              THEN Ret("got", key, lru_get(l1, key).val.expiry_ts,
                       CacheResult(lru_get(l1, key).val.file_id, lru_get(l1, key).val.data, None),
                       None, FALSE, FALSE)
              ELSE Ret("got", key, 0, NoResult, None, FALSE, FALSE)
  /\ UNCHANGED <<now, blob, meta, locks, calls, janitors, done, burst, puts, tmp, parts>>

LruPut(key, file_id, data, expiry_ts) ==
  /\ l1' = lru_put(l1, key, file_id, data, expiry_ts)
  /\ ret' = Ret("put", key, expiry_ts, CacheResult(file_id, data, None), None, FALSE, FALSE)
  /\ UNCHANGED <<now, blob, meta, locks, calls, janitors, done, burst, puts, tmp, parts>>

LruSetFileId(key, file_id) ==
  /\ l1' = set_file_id(l1, key, file_id)
  /\ ret' = Ret("set", key, 0, CacheResult(file_id, None, None), None, FALSE, FALSE)
  /\ UNCHANGED <<now, blob, meta, locks, calls, janitors, done, burst, puts, tmp, parts>>

NextLru ==
  \/ \E key \in L1Keys : LruGet(key)
  \/ \E key \in L1Keys, data \in LruBlobs, expiry_ts \in 0..1 :
       LruPut(key, None, data, expiry_ts)
  \/ \E key \in L1Keys, expiry_ts \in 0..1 : LruPut(key, "h1", None, expiry_ts)
  \/ \E key \in L1Keys : LruSetFileId(key, "h2")

SpecLru == Init /\ [][NextLru]_vars

\* A janitor pass by itself.  It starts as a pending task over a directory
\* of up to five blobs of 30 or 60 bytes that is above the cap, every blob
\* with its metadata record.  The janitor treats all blobs alike, so they
\* are named in the order of their last_used_ts (equal values included);
\* the st_mtime of a blob is that of its write, before its last use.
JanitorKeys == {"A", "B", "C", "D", "E"}
JanitorBlobs == {"s", "x"}

KeyOrder(k) == CASE k = "A" -> 1 [] k = "B" -> 2 [] k = "C" -> 3 [] k = "D" -> 4 [] k = "E" -> 5

InitJanitor ==
  /\ now = MaxStamp
  /\ l1 = [od |-> <<>>, current_bytes |-> 0]
  /\ \E content \in [JanitorKeys -> {None} \cup JanitorBlobs],
        stamp \in [JanitorKeys -> 0..MaxStamp] :
       /\ \A j, k \in JanitorKeys :
            (content[j] # None /\ content[k] # None /\ KeyOrder(j) < KeyOrder(k))
              => stamp[j] <= stamp[k]
       /\ \A k \in JanitorKeys : content[k] = None => stamp[k] = 0
       /\ blob = [k \in JanitorKeys |->
                    IF content[k] = None THEN NoBlob
                    ELSE [exists |-> TRUE, data |-> content[k], mtime |-> 0]]
       /\ meta = [k \in JanitorKeys |->
                    IF content[k] = None THEN NoMeta
                    ELSE StoredMeta(content[k], MaxStamp + 1, 0, stamp[k])]
  /\ SumSizes(blob, {k \in JanitorKeys : blob[k].exists}) > l2_max_bytes
  /\ locks = [k \in Keys |-> 0]
  /\ calls = <<>>
  /\ janitors = 1
  /\ ret = NoRet
  /\ done = <<>>
  /\ burst = 0
  /\ puts = 0
  /\ tmp = [k \in Keys |-> NoTmp]
  /\ parts = NoParts

NextJanitor == Janitor

SpecJanitor == InitJanitor /\ [][NextJanitor]_vars

\* The caller of call i is cancelled while the call awaits the producer:
\* CancelledError is raised at the await, leaves "async with" (release) and
\* the finally block, and nothing after the await runs.  The worker thread
\* is not interrupted: the producer runs on with nobody awaiting it
\* (pc "orphan", no lock).
Cancel(i) ==
  /\ i <= Len(calls)
  /\ calls[i].pc = "producing"
  /\ UNCHANGED <<now, l1, blob, meta, janitors, burst, puts, tmp, parts>>
  /\ LET cs == [calls EXCEPT ![i] = Call("orphan", @.key, @.expiry_ts, 0)]
         tbl2 == FinallyPop(locks, calls[i].key, calls[i].lock, Locked(cs, calls[i].lock))
         used == UsedLocks(cs, tbl2)
     IN /\ End(Ret("failed", calls[i].key, 0, NoResult, "CancelledError", TRUE, FALSE))
        /\ calls' = [j \in 1..Len(cs) |-> [cs[j] EXCEPT !.lock = Rank(used, @)]]
        /\ locks' = [k \in Keys |-> Rank(used, tbl2[k])]

\* The producer of a cancelled call returns (or raises) in its thread: the
\* future's result is dropped
OrphanEnds(i) ==
  /\ i <= Len(calls)
  /\ calls[i].pc = "orphan"
  /\ calls' = RemoveAt(calls, i)
  /\ UNCHANGED <<now, l1, blob, meta, locks, janitors, ret, done, burst, puts, tmp, parts>>

\* The cache used for one key by callers that may be cancelled
NextCancel ==
  \/ Start("A", 1)
  \/ \E i \in Calls : Resume(i)
  \/ \E i \in Calls, data \in Blobs : Produced(i, data)
  \/ \E i \in Calls : Cancel(i)
  \/ \E i \in Calls : OrphanEnds(i)
  \/ Janitor
  \/ Tick

SpecCancel == Init /\ [][NextCancel]_vars

\* The caller of call i is cancelled while the call is suspended in
\* lock.acquire(): CancelledError is raised there, the call leaves the
\* lock's waiters without having held the lock, and the finally block runs.
CancelWaiting(i) ==
  /\ i <= Len(calls)
  /\ calls[i].pc = "waiting"
  /\ UNCHANGED <<now, l1, blob, meta, janitors, burst, puts, tmp, parts>>
  /\ ReturnInLock(calls, i, Ret("failed", calls[i].key, 0, NoResult,
                                "CancelledError", FALSE, FALSE), locks)

\* The cache used for one key by calls that end in each way: they return,
\* their producer raises, or their caller is cancelled
NextLeave ==
  \/ Start("A", 1)
  \/ \E i \in Calls : Resume(i)
  \/ \E i \in Calls, data \in Blobs : Produced(i, data)
  \/ \E i \in Calls, err \in Errors : ProducerFails(i, err)
  \/ \E i \in Calls : Cancel(i)
  \/ \E i \in Calls : CancelWaiting(i)
  \/ \E i \in Calls : OrphanEnds(i)
  \/ Janitor
  \/ Tick

SpecLeave == Init /\ [][NextLeave]_vars

\* The cache used for two keys by calls that overlap, with one ttl
NextPar ==
  \/ \E key \in Keys : Start(key, 1)
  \/ \E i \in Calls : Resume(i)
  \/ \E i \in Calls, data \in Blobs : Produced(i, data)
  \/ Janitor
  \/ Tick

SpecPar == Init /\ [][NextPar]_vars

\* The eviction loop up to its n-th unlink, at which p.unlink raises: the
\* entries before it are unlinked, blob and record; of the n-th the
\* finally clause unlinks the record, and the blob stays.  reached: the loop
\* got that far.
RECURSIVE unlink_fails(_, _, _, _, _)
unlink_fails(ord, total, b, m, n) ==
  IF ord = <<>> THEN [reached |-> FALSE, blob |-> b, meta |-> m]
  ELSE LET k == Head(ord)
           t2 == total - ByteLen(b[k].data)
       IN IF n = 1 THEN [reached |-> TRUE, blob |-> b, meta |-> [m EXCEPT ![k] = NoMeta]]
          ELSE IF t2 <= target THEN [reached |-> FALSE, blob |-> b, meta |-> m]
          ELSE unlink_fails(Tail(ord), t2, [b EXCEPT ![k] = NoBlob],
                            [m EXCEPT ![k] = NoMeta], n - 1)

\* a failing janitor pass whose exception reaches the call that runs next
JanitorFails_Propagates(n) ==
  /\ janitors > 0
  /\ janitors' = janitors - 1
  /\ UNCHANGED <<blob, meta>>
  /\ ret' = Ret("failed", None, 0, NoResult, "OSError", FALSE, FALSE)
  /\ UNCHANGED <<now, l1, locks, calls, done, burst, puts, tmp, parts>>

\* A janitor pass that raises: in its scan (n = 0: nothing is deleted) or
\* at its n-th unlink.  The exception ends the task, which nobody awaits.
JanitorFails(n) ==
  /\ janitors > 0
  /\ janitors' = janitors - 1
  /\ LET total == SumSizes(blob, {k \in DOMAIN blob : blob[k].exists})
     IN IF n = 0
          THEN UNCHANGED <<blob, meta>>
          ELSE /\ total > l2_max_bytes
               /\ \E ord \in SortedOrders(blob, meta) :
                    /\ unlink_fails(ord, total, blob, meta, n).reached
                    /\ blob' = unlink_fails(ord, total, blob, meta, n).blob
                    /\ meta' = unlink_fails(ord, total, blob, meta, n).meta
  /\ UNCHANGED <<now, l1, locks, calls, ret, done, burst, puts, tmp, parts>>

\* The cache used for two keys, the calls one at a time, with janitor
\* passes that can fail
NextBg ==
  \/ \E key \in Keys : calls = <<>> /\ Start(key, 1)
  \/ \E i \in Calls, data \in Blobs : Produced(i, data)
  \/ \E key \in Keys, file_id \in Handles : Remember(key, file_id, 1)
  \/ Janitor
  \/ \E n \in 0..Cardinality(Keys) : JanitorFails(n)
  \/ Tick

SpecBg == Init /\ [][NextBg]_vars

\* Janitor passes that overlap: productions have stored the blobs of two
\* keys, above the cap, and each has created its janitor task; no task has
\* run yet.  A task runs its whole pass when the loop gets to it: _janitor
\* holds self._janitor_lock and has no await inside.
InitPasses ==
  /\ now = MaxStamp
  /\ l1 = [od |-> <<>>, current_bytes |-> 0]
  /\ \E content \in [Keys -> {None, "s", "x", "big"}], stamp \in [Keys -> 0..MaxStamp] :
       /\ \A k \in Keys : content[k] = None => stamp[k] = 0
       /\ blob = [k \in Keys |->
                    IF content[k] = None THEN NoBlob
                    ELSE [exists |-> TRUE, data |-> content[k], mtime |-> stamp[k]]]
       /\ meta = [k \in Keys |->
                    IF content[k] = None THEN NoMeta
                    ELSE StoredMeta(content[k], MaxStamp + 1, stamp[k], stamp[k])]
  /\ SumSizes(blob, {k \in Keys : blob[k].exists}) > l2_max_bytes
  /\ locks = [k \in Keys |-> 0]
  /\ calls = <<>>
  /\ janitors \in 1..MaxPasses
  /\ ret = NoRet
  /\ done = <<>>
  /\ burst = 0
  /\ puts = 0
  /\ tmp = [k \in Keys |-> NoTmp]
  /\ parts = NoParts

NextPasses == Janitor

SpecPasses == InitPasses /\ [][NextPasses]_vars

\* The key of two key_parts dicts, as get_or_produce computes it for the
\* one and remember_file_id for the other.  The dicts have up to MaxItems
\* items.
ItemKeys == {"a", "b"}
Scalars == {"1", "2"}

DictsOf(values) ==
  UNION {{ps \in [1..n -> [k : ItemKeys, v : values]] :
            \A i, j \in 1..n : i # j => ps[i].k # ps[j].k} : n \in 1..MaxItems}

KeyParts == DictsOf({Scalar(x) : x \in Scalars}
                    \cup {Nested(ps) : ps \in DictsOf({Scalar(x) : x \in Scalars})})

InitKeyStr ==
  /\ now = 0
  /\ l1 = [od |-> <<>>, current_bytes |-> 0]
  /\ blob = [k \in Keys |-> NoBlob]
  /\ meta = [k \in Keys |-> NoMeta]
  /\ locks = [k \in Keys |-> 0]
  /\ calls = <<>>
  /\ janitors = 0
  /\ ret = NoRet
  /\ done = <<>>
  /\ burst = 0
  /\ puts = 0
  /\ tmp = [k \in Keys |-> NoTmp]
  /\ \E p \in KeyParts, q \in KeyParts : parts = [NoParts EXCEPT !.p = p, !.q = q]

\* key = self._key_str(key_parts); img_path, meta_path = self._paths(key)
KeyAndPaths ==
  /\ ~parts.applied
  /\ parts' = [parts EXCEPT !.pkey = key_str(parts.p), !.qkey = key_str(parts.q),
                            !.ppaths = paths(key_str(parts.p)),
                            !.qpaths = paths(key_str(parts.q)),
                            !.applied = TRUE]
  /\ UNCHANGED <<now, l1, blob, meta, locks, calls, janitors, ret, done, burst, puts, tmp>>

NextKeyStr == KeyAndPaths

SpecKeyStr == InitKeyStr /\ [][NextKeyStr]_vars

\* ------------------------------------------- the disk tier step by step
\* The production write is tmp.write_bytes, os.replace, tmpm.write_text,
\* os.replace.  A point of it is how far it got: the blob's temporary file
\* written in part or whole, the blob renamed into place, the record's
\* temporary file written in part or whole, the record renamed into place.
Points == {"blob_tmp_partial", "blob_tmp", "blob", "meta_tmp_partial", "meta_tmp", "meta"}

\* the points at which a step of the write can raise OSError
FailPoints == Points \ {"blob", "meta"}

\* a production write without the temporary file: the bytes are written
\* straight to the blob's path
WriteUpTo_InPlace(key, data, expiry_ts, point) ==
  LET newblob == [exists |-> TRUE, data |-> data, mtime |-> now]
  IN CASE point = "blob_tmp_partial" ->
            [blob |-> [exists |-> TRUE, data |-> "partial", mtime |-> now],
             meta |-> meta[key], tmp |-> tmp[key]]
       [] point \in {"blob_tmp", "blob"} ->
            [blob |-> newblob, meta |-> meta[key], tmp |-> tmp[key]]
       [] point = "meta_tmp_partial" ->
            [blob |-> newblob, meta |-> meta[key], tmp |-> [img |-> None, meta |-> TornMeta]]
       [] point = "meta_tmp" ->
            [blob |-> newblob, meta |-> meta[key],
             tmp |-> [img |-> None, meta |-> StoredMeta(data, expiry_ts, now, now)]]
       [] point = "meta" ->
            [blob |-> newblob, meta |-> StoredMeta(data, expiry_ts, now, now), tmp |-> NoTmp]

\* the files of key once the production write of data has got to point
WriteUpTo(key, data, expiry_ts, point) ==
  LET newblob == [exists |-> TRUE, data |-> data, mtime |-> now]
  IN CASE point = "blob_tmp_partial" ->
            [blob |-> blob[key], meta |-> meta[key], tmp |-> [tmp[key] EXCEPT !.img = "partial"]]
       [] point = "blob_tmp" ->
            [blob |-> blob[key], meta |-> meta[key], tmp |-> [tmp[key] EXCEPT !.img = data]]
       [] point = "blob" ->
            [blob |-> newblob, meta |-> meta[key], tmp |-> [tmp[key] EXCEPT !.img = None]]
       [] point = "meta_tmp_partial" ->
            [blob |-> newblob, meta |-> meta[key], tmp |-> [img |-> None, meta |-> TornMeta]]
       [] point = "meta_tmp" ->
            [blob |-> newblob, meta |-> meta[key],
             tmp |-> [img |-> None, meta |-> StoredMeta(data, expiry_ts, now, now)]]
       [] point = "meta" ->
            [blob |-> newblob, meta |-> StoredMeta(data, expiry_ts, now, now), tmp |-> NoTmp]

\* WriteFails that puts the bytes into L1 before the write
WriteFails_PutsFirst(i, data, point) ==
  /\ i <= Len(calls)
  /\ calls[i].pc = "producing"
  /\ UNCHANGED <<now, janitors, burst, puts, parts>>
  /\ l1' = lru_put(l1, calls[i].key, None, data, calls[i].expiry_ts)
  /\ LET w == WriteUpTo(calls[i].key, data, calls[i].expiry_ts, point)
     IN /\ blob' = [blob EXCEPT ![calls[i].key] = w.blob]
        /\ meta' = [meta EXCEPT ![calls[i].key] = w.meta]
        /\ tmp' = [tmp EXCEPT ![calls[i].key] = w.tmp]
  /\ ReturnInLock(calls, i, Ret("failed", calls[i].key, 0, NoResult,
                                "OSError", TRUE, FALSE), locks)

\* The producer of call i returned data and the write to L2 raised OSError
\* at point (disk full, permissions): the files stay as the write left
\* them, the exception leaves "async with" (release) and the finally block
\* and reaches the caller
WriteFails(i, data, point) ==
  /\ i <= Len(calls)
  /\ calls[i].pc = "producing"
  /\ UNCHANGED <<now, l1, janitors, burst, puts, parts>>
  /\ LET w == WriteUpTo(calls[i].key, data, calls[i].expiry_ts, point)
     IN /\ blob' = [blob EXCEPT ![calls[i].key] = w.blob]
        /\ meta' = [meta EXCEPT ![calls[i].key] = w.meta]
        /\ tmp' = [tmp EXCEPT ![calls[i].key] = w.tmp]
  /\ ReturnInLock(calls, i, Ret("failed", calls[i].key, 0, NoResult,
                                "OSError", TRUE, FALSE), locks)

\* The process ends and a new one constructs ImageCache2 on the same
\* cache_dir: L1, the lock table, the calls and the janitor tasks are gone,
\* the files stay.  r tells how the process ended.
ProcessRestarts(r) ==
  /\ l1' = [od |-> <<>>, current_bytes |-> 0]
  /\ locks' = [k \in Keys |-> 0]
  /\ calls' = <<>>
  /\ janitors' = 0
  /\ ret' = r
  /\ UNCHANGED <<now, done, burst, puts, parts>>

\* the process ends between two steps
Restart ==
  /\ ProcessRestarts(Ret("restarted", None, 0, NoResult, None, FALSE, FALSE))
  /\ UNCHANGED <<blob, meta, tmp>>

\* The process is killed when the production write of call i has got to
\* point
KilledInWrite(i, data, point) ==
  /\ i <= Len(calls)
  /\ calls[i].pc = "producing"
  /\ LET w == WriteUpTo(calls[i].key, data, calls[i].expiry_ts, point)
     IN /\ blob' = [blob EXCEPT ![calls[i].key] = w.blob]
        /\ meta' = [meta EXCEPT ![calls[i].key] = w.meta]
        /\ tmp' = [tmp EXCEPT ![calls[i].key] = w.tmp]
  /\ ProcessRestarts(Ret("killed", calls[i].key, calls[i].expiry_ts,
                         CacheResult(None, data, None), point, TRUE, FALSE))

\* The process is killed inside meta_path.write_text of an L2 hit, after
\* open() truncated the record and before its text is written to the end
KilledInTouch(key) ==
  /\ Len(calls) + Len(done) < NumCalls
  /\ ~L1Lookup(l1, key).hit
  /\ L2Lookup(l1, blob, meta, key).hit
  /\ meta' = [meta EXCEPT ![key] = TornMeta]
  /\ UNCHANGED <<blob, tmp>>
  /\ ProcessRestarts(Ret("killed", key, 0, NoResult, "touch", FALSE, FALSE))

\* The cache used for one key, one call at a time, by processes that can
\* end at any point and whose writes can fail
NextDisk ==
  \/ calls = <<>> /\ Start("A", 1)
  \/ \E i \in Calls, data \in Blobs : Produced(i, data)
  \/ \E i \in Calls, data \in Blobs, point \in FailPoints : WriteFails(i, data, point)
  \/ \E i \in Calls, data \in Blobs, point \in Points : KilledInWrite(i, data, point)
  \/ KilledInTouch("A")
  \/ Restart
  \/ \E file_id \in Handles : Remember("A", file_id, 1)
  \/ Janitor
  \/ Tick

SpecDisk == Init /\ [][NextDisk]_vars

\* A janitor pass over a directory at or under the cap: productions have
\* stored blobs of any age, some expired by now, and the task of the latest
\* one is pending.
InitUnderCap ==
  /\ now = MaxStamp
  /\ l1 = [od |-> <<>>, current_bytes |-> 0]
  /\ \E content \in [Keys -> {None, "s", "x"}], stamp \in [Keys -> 0..MaxStamp],
        ttl \in [Keys -> TTLs] :
       /\ \A k \in Keys : content[k] = None => (stamp[k] = 0 /\ ttl[k] = 1)
       /\ blob = [k \in Keys |->
                    IF content[k] = None THEN NoBlob
                    ELSE [exists |-> TRUE, data |-> content[k], mtime |-> stamp[k]]]
       /\ meta = [k \in Keys |->
                    IF content[k] = None THEN NoMeta
                    ELSE StoredMeta(content[k], stamp[k] + ttl[k], stamp[k], stamp[k])]
  /\ SumSizes(blob, {k \in Keys : blob[k].exists}) <= l2_max_bytes
  /\ locks = [k \in Keys |-> 0]
  /\ calls = <<>>
  /\ janitors = 1
  /\ ret = NoRet
  /\ done = <<>>
  /\ burst = 0
  /\ puts = 0
  /\ tmp = [k \in Keys |-> NoTmp]
  /\ parts = NoParts

NextUnderCap == Janitor

SpecUnderCap == InitUnderCap /\ [][NextUnderCap]_vars

\* A janitor pass during which a file of key k, that glob has listed,
\* disappears from the directory (another user of the directory deletes
\* it).  what: the file, "blob" or "meta"; at: "scan", before the scan
\* loop reads the file, or "evict", after the scan and before the unlinks.
\*  - blob, scan: p.stat() raises FileNotFoundError, and so does the
\*    p.stat() of the except branch: the pass ends there, nothing is unlinked
\*  - meta, scan: the blob is there with no record to read: it is ranked by
\*    its st_mtime, and the pass goes on
\*  - evict: the entry was scanned and counted; unlink(missing_ok=True)
\*    passes over the missing file
JanitorRaced(k, what, at) ==
  /\ janitors > 0
  /\ janitors' = janitors - 1
  /\ blob[k].exists
  /\ what = "meta" => meta[k].exists
  /\ LET b1 == IF what = "blob" THEN [blob EXCEPT ![k] = NoBlob] ELSE blob
         m1 == IF what = "meta" THEN [meta EXCEPT ![k] = NoMeta] ELSE meta
         total == SumSizes(blob, {j \in DOMAIN blob : blob[j].exists})
     IN IF at = "scan" /\ what = "blob"
          THEN blob' = b1 /\ meta' = m1
        ELSE IF total <= l2_max_bytes
          THEN blob' = b1 /\ meta' = m1
        ELSE IF at = "scan"
          THEN \E ord \in SortedOrders(b1, m1) :
                 /\ blob' = unlink_until(ord, total, b1, m1).blob
                 /\ meta' = unlink_until(ord, total, b1, m1).meta
        ELSE \E ord \in SortedOrders(blob, meta) :
               /\ blob' = unlink_until(ord, total, b1, m1).blob
               /\ meta' = unlink_until(ord, total, b1, m1).meta
  /\ UNCHANGED <<now, l1, locks, calls, ret, done, burst, puts, tmp, parts>>

\* the state of a blob's metadata file
RecordStates == {"ok", "missing", "corrupt"}

\* A janitor pass over a directory above the cap in which some blobs have
\* no metadata record or an unreadable one.  A blob with a record was
\* written at 0 and last used at its stamp; one without was written at its
\* stamp.
InitRaced ==
  /\ now = MaxStamp
  /\ l1 = [od |-> <<>>, current_bytes |-> 0]
  /\ \E content \in [Keys -> {"s", "x", "big"}], stamp \in [Keys -> 0..MaxStamp],
        rec \in [Keys -> RecordStates] :
       /\ blob = [k \in Keys |->
                    [exists |-> TRUE, data |-> content[k],
                     mtime |-> IF rec[k] = "ok" THEN 0 ELSE stamp[k]]]
       /\ meta = [k \in Keys |->
                    CASE rec[k] = "ok" -> StoredMeta(content[k], MaxStamp + 1, 0, stamp[k])
                      [] rec[k] = "missing" -> NoMeta
                      [] rec[k] = "corrupt" -> TornMeta]
  /\ SumSizes(blob, {k \in Keys : blob[k].exists}) > l2_max_bytes
  /\ locks = [k \in Keys |-> 0]
  /\ calls = <<>>
  /\ janitors = 1
  /\ ret = NoRet
  /\ done = <<>>
  /\ burst = 0
  /\ puts = 0
  /\ tmp = [k \in Keys |-> NoTmp]
  /\ parts = NoParts

NextRaced ==
  \/ Janitor
  \/ \E k \in Keys, what \in {"blob", "meta"}, at \in {"scan", "evict"} : JanitorRaced(k, what, at)

SpecRaced == InitRaced /\ [][NextRaced]_vars

\* NumCalls calls in all, for two keys, started at any time: before or
\* after others ended; producers succeed or raise, callers are cancelled
\* while their call produces or waits.  `done` keeps the outcomes.
NextAll ==
  \/ \E key \in Keys : Start(key, burst)
  \/ \E i \in Calls : Resume(i)
  \/ \E i \in Calls, data \in Blobs : Produced(i, data)
  \/ \E i \in Calls, err \in Errors : ProducerFails(i, err)
  \/ \E i \in Calls : Cancel(i)
  \/ \E i \in Calls : CancelWaiting(i)
  \/ \E i \in Calls : OrphanEnds(i)
  \/ Janitor
  \/ Tick

\* the producer of call i ends: it returns or raises
ProducerEnds(i) ==
  \/ \E data \in Blobs : Produced(i, data)
  \/ \E err \in Errors : ProducerFails(i, err)

\* The event loop runs every task that is ready (a woken waiter, a janitor
\* task), and every producer invocation terminates, in its thread, awaited
\* or not.  Callers start and cancel calls as they like.
FairSpecAll ==
  /\ InitBurst /\ [][NextAll]_vars
  /\ \A i \in Calls : WF_vars(Resume(i))
  /\ \A i \in Calls : WF_vars(ProducerEnds(i))
  /\ \A i \in Calls : WF_vars(OrphanEnds(i))
  /\ WF_vars(Janitor)

\* SpecDisk with the event loop's fairness: a janitor task that has been
\* created is run (create_task puts it on the loop, which runs every ready
\* task); the callers' operations and the crashes have no fairness
FairSpecDisk == SpecDisk /\ WF_vars(Janitor)

\* ================================================================ claims
Producing(key) == {i \in 1..Len(calls) : calls[i].key = key /\ calls[i].pc = "producing"}

\* C1: in every reachable state, each key has at most one producer
\* invocation started by get_or_produce in flight.
C1_OneProducerInFlight == \A key \in Keys : Cardinality(Producing(key)) <= 1


BurstOver == burst # 0 /\ calls = <<>> /\ done # <<>>

\* C2 as claimed: when the calls of a burst on an empty cache have all
\* ended, the producer was invoked exactly once and all calls returned the
\* same bytes.
C2_OnceAndSame ==
  BurstOver =>
    /\ Cardinality({j \in 1..Len(done) : done[j].invoked}) = 1
    /\ \A j \in 1..Len(done) :
         /\ done[j].pc = "done"
         /\ done[j].res.data # None
         /\ done[j].res.data = done[1].res.data

\* C2 as amended: when moreover the bytes produced are no larger than the L1
\* byte cap and every call has ended before the first call's expiresAt,
\* the producer was invoked exactly once and all calls returned the same
\* bytes.
BurstFitsAndFresh ==
  /\ BurstOver
  /\ now < done[1].exp
  /\ \A j \in 1..Len(done) : done[j].invoked => ByteLen(done[j].res.data) <= l1_max_bytes

C2_OnceAndSame_Amended ==
  BurstFitsAndFresh =>
    /\ Cardinality({j \in 1..Len(done) : done[j].invoked}) = 1
    /\ \A j \in 1..Len(done) :
         /\ done[j].pc = "done"
         /\ done[j].res.data # None
         /\ done[j].res.data = done[1].res.data

\* a burst of NumCalls calls, one of which produced while the others waited
C2_Witness ==
  /\ BurstFitsAndFresh
  /\ Len(done) = NumCalls
  /\ \E j \in 1..Len(done) : ~done[j].invoked

\* A call has returned bytes, no other operation has run since, and the
\* entry the bytes came from has not expired.
ReturnedBytes == ret.pc = "done" /\ ret.res.data # None /\ now < ret.exp

\* C3 as claimed: a get_or_produce that starts after a call with the same
\* key has returned bytes, before the expiresAt of the entry they came from,
\* returns the same bytes and does not invoke the producer.
C3_SameBytesAgain ==
  [][\A ttl \in TTLs :
       (ReturnedBytes /\ Start(ret.key, ttl))
         => (ret'.pc = "done" /\ ret'.res.data = ret.res.data /\ ~ret'.invoked)]_vars

\* C3 as amended: when the bytes the first call returned are no larger than
\* the L1 byte cap and no other cache operation runs between the two calls
\* (janitor passes and time apart), the second call returns the same bytes
\* and does not invoke the producer.
C3_SameBytesAgain_Amended ==
  [][\A ttl \in TTLs :
       (ReturnedBytes /\ ByteLen(ret.res.data) <= l1_max_bytes /\ Start(ret.key, ttl))
         => (ret'.pc = "done" /\ ret'.res.data = ret.res.data /\ ~ret'.invoked)]_vars

\* a call has returned, from L1 and without the producer, bytes that an
\* earlier call put there, after the clock moved
C3_Witness ==
  /\ ReturnedBytes
  /\ ~ret.invoked
  /\ ret.res.path = None
  /\ ByteLen(ret.res.data) <= l1_max_bytes
  /\ now > 0
  /\ janitors = 0

\* The entry of key is present and expired in L1 and in L2.
ExpiredInBothTiers(key) ==
  /\ Has(l1.od, key) /\ ~is_fresh(Entry(l1.od, key).expiry_ts)
  /\ blob[key].exists /\ meta[key].exists /\ ~is_fresh(meta[key].expiry_ts)

\* what a successful production leaves: the caller has the bytes, L1 and L2
\* hold them with the call's expiry
Replaced(key, data, expiry_ts) ==
  /\ ret'.pc = "done" /\ ret'.invoked /\ ret'.res.data = data
  /\ Has(l1'.od, key)
  /\ Entry(l1'.od, key).data = data
  /\ Entry(l1'.od, key).expiry_ts = expiry_ts
  /\ blob'[key].exists /\ blob'[key].data = data
  /\ meta'[key].exists /\ meta'[key].expiry_ts = expiry_ts

\* the call that has just started is alone and awaits the producer, its
\* expiry being expiry_ts
ProducerInvoked(key, expiry_ts) ==
  /\ Len(calls') = 1
  /\ calls'[1].pc = "producing"
  /\ calls'[1].key = key
  /\ calls'[1].expiry_ts = expiry_ts

\* C4 as claimed: when the entry of a key has expired in both tiers, the
\* next get_or_produce (no call being in progress) invokes the producer, and
\* when the producer returns the call returns the new bytes and replaces the
\* entry in L1 and in L2, with the call's expiresAt.
C4_ReproducedAfterExpiry ==
  [][/\ \A key \in Keys, ttl \in TTLs :
          (calls = <<>> /\ ExpiredInBothTiers(key) /\ Start(key, ttl))
            => ProducerInvoked(key, now + ttl)
     /\ \A i \in Calls, data \in Blobs :
          (i <= Len(calls) /\ ExpiredInBothTiers(calls[i].key) /\ Produced(i, data))
            => Replaced(calls[i].key, data, calls[i].expiry_ts)]_vars

\* C4 as amended: the same, the entry being replaced in L1 when the new
\* bytes are no larger than the L1 byte cap.
C4_ReproducedAfterExpiry_Amended ==
  [][/\ \A key \in Keys, ttl \in TTLs :
          (calls = <<>> /\ ExpiredInBothTiers(key) /\ Start(key, ttl))
            => ProducerInvoked(key, now + ttl)
     /\ \A i \in Calls, data \in Blobs :
          (i <= Len(calls) /\ ExpiredInBothTiers(calls[i].key)
             /\ ByteLen(data) <= l1_max_bytes /\ Produced(i, data))
            => Replaced(calls[i].key, data, calls[i].expiry_ts)]_vars

\* the entry has expired in both tiers and the one call in progress, started
\* after the expiry, awaits the producer
C4_Witness ==
  /\ ExpiredInBothTiers("A")
  /\ Len(calls) = 1
  /\ calls[1].pc = "producing"
  /\ calls[1].expiry_ts > now
  /\ Entry(l1.od, "A").expiry_ts < calls[1].expiry_ts

\* the entries of L1, whatever their order
L1Entries(l) == {l.od[j] : j \in 1..Len(l.od)}

\* nothing is written: L1's entries, the blobs, the records and the janitor
\* tasks are as they were
NothingWritten ==
  /\ L1Entries(l1') = L1Entries(l1)
  /\ l1'.current_bytes = l1.current_bytes
  /\ blob' = blob
  /\ meta' = meta
  /\ janitors' = janitors

\* call i has left: the calls that waited on its lock can take it, and the
\* lock table does not point to a locked lock in its place
LockReleased(i) ==
  /\ Len(calls') = Len(calls) - 1
  /\ \A j \in 1..Len(calls) :
       (j # i /\ calls[j].lock = calls[i].lock)
         => ~Locked(calls', calls'[IF j < i THEN j ELSE j - 1].lock)
  /\ (locks[calls[i].key] = calls[i].lock /\ locks'[calls[i].key] # 0)
       => ~Locked(calls', locks'[calls[i].key])

\* C5: when the producer of a call fails, the call gives its caller that
\* error, its lock is released, and no step of the call (its start, its
\* taking the lock, the failure) writes the L1 entry, the blob or the record
\* or schedules a janitor pass.
C5_ProducerFailure ==
  [][/\ \A i \in Calls, err \in Errors :
          ProducerFails(i, err)
            => /\ ret'.pc = "failed" /\ ret'.err = err /\ ret'.key = calls[i].key
               /\ ret'.res = NoResult
               /\ NothingWritten
               /\ LockReleased(i)
     /\ (Len(calls') > Len(calls)) => NothingWritten
     /\ \A i \in Calls :
          (i <= Len(calls) /\ Len(calls') = Len(calls)
             /\ calls[i].pc = "waiting" /\ calls'[i].pc = "producing")
            => NothingWritten]_vars

\* a producer has failed while an entry was cached and another call waited
\* for the lock: the caller has the error, the waiter is still there
C5_Witness ==
  /\ ret.pc = "failed"
  /\ ret.err = "E2"
  /\ Has(l1.od, "A")
  /\ blob["A"].exists
  /\ \E j \in 1..Len(calls) : calls[j].pc = "waiting"

\* remember_file_id has run, no other operation has run since, and the
\* expiry it gave has not passed.
Remembered == ret.pc = "remembered" /\ now < ret.exp

\* C6 as claimed: whatever the state of the cache when remember_file_id
\* runs, a get_or_produce that starts after it and before its expiry returns
\* the file_id, does not invoke the producer and does not read the blob.
C6_HandleReturned ==
  [][\A ttl \in TTLs :
       (Remembered /\ Start(ret.key, ttl))
         => /\ ret'.pc = "done"
            /\ ret'.res.file_id = ret.res.file_id
            /\ ret'.res.data = None
            /\ ~ret'.invoked
            /\ ~ret'.readBlob]_vars

\* C6 as amended: the same when the blob of the key is in L2 at the start of
\* the get_or_produce and no other cache operation runs between the two
\* (janitor passes and time apart).
C6_HandleReturned_Amended ==
  [][\A ttl \in TTLs :
       (Remembered /\ blob[ret.key].exists /\ Start(ret.key, ttl))
         => /\ ret'.pc = "done"
            /\ ret'.res.file_id = ret.res.file_id
            /\ ret'.res.data = None
            /\ ~ret'.invoked
            /\ ~ret'.readBlob]_vars

\* a call has returned, without the producer and without reading the blob,
\* the file_id the record of its key holds
C6_Witness ==
  /\ ret.pc = "done"
  /\ ret.res.file_id \in Handles
  /\ ret.res.data = None
  /\ ~ret.invoked
  /\ ~ret.readBlob
  /\ blob[ret.key].exists
  /\ meta[ret.key].file_id = ret.res.file_id

\* C7: after remember_file_id(key, file_id, ttl) at time t, the L1 entry of
\* the key (when there is one) and the record of the key in L2 both hold
\* file_id and the expiry t + ttl.
C7_HandleAndExpiryInBothTiers ==
  [][\A key \in Keys, file_id \in Handles, ttl \in TTLs :
       Remember(key, file_id, ttl)
         => /\ meta'[key].exists
            /\ meta'[key].file_id = file_id
            /\ meta'[key].expiry_ts = now + ttl
            /\ Has(l1'.od, key)
                 => /\ Entry(l1'.od, key).file_id = file_id
                    /\ Entry(l1'.od, key).expiry_ts = now + ttl]_vars

\* C8: remember_file_id leaves the blob of its key, the bytes and size of the
\* key's L1 entry, L1's byte total and every entry of the other keys in L1
\* and L2 as they were, and adds no entry to L1.
C8_RememberFrame ==
  [][\A key \in Keys, file_id \in Handles, ttl \in TTLs :
       Remember(key, file_id, ttl)
         => /\ blob' = blob
            /\ \A k \in Keys \ {key} : meta'[k] = meta[k]
            /\ l1'.current_bytes = l1.current_bytes
            /\ Len(l1'.od) = Len(l1.od)
            /\ Has(l1'.od, key) = Has(l1.od, key)
            /\ Entry(l1'.od, key).data = Entry(l1.od, key).data
            /\ Entry(l1'.od, key).size = Entry(l1.od, key).size
            /\ \A k \in L1Keys \ {key} : Entry(l1'.od, k) = Entry(l1.od, k)]_vars

\* remember_file_id has run on a key whose bytes are in L1 while the other
\* key has an entry in L1 and in L2
C8_Witness ==
  /\ ret.pc = "remembered"
  /\ Has(l1.od, ret.key)
  /\ Entry(l1.od, ret.key).data # None
  /\ Entry(l1.od, ret.key).file_id = ret.res.file_id
  /\ \E k \in Keys \ {ret.key} :
       Has(l1.od, k) /\ blob[k].exists /\ meta[k].exists

RECURSIVE SumOfSizes(_)
SumOfSizes(od) == IF od = <<>> THEN 0 ELSE Head(od).size + SumOfSizes(Tail(od))

\* C9: after every operation on L1 (get, put, set_file_id), in any sequence,
\* the sizes of the entries of L1 add up to at most the L1 byte cap.
C9_L1WithinCap == SumOfSizes(l1.od) <= l1_max_bytes

\* the put of 60 bytes under B, after that under A, has evicted A
C9_Witness ==
  /\ puts = 2
  /\ ~Has(l1.od, "A")
  /\ Has(l1.od, "B")
  /\ SumOfSizes(l1.od) = 60

\* C10 as claimed: after puts of 60 bytes under A, B and C in that order,
\* with the cap at 100, A is not in L1, B and C are, and the byte total is at
\* most 100.
C10_ABC ==
  puts = 3 =>
    /\ ~Has(l1.od, "A")
    /\ Has(l1.od, "B")
    /\ Has(l1.od, "C")
    /\ l1.current_bytes <= 100

\* C10 as amended: after these puts neither A nor B is in L1, C is the one
\* entry, with its 60 bytes, and the byte total is 60.
C10_ABC_Amended ==
  puts = 3 =>
    /\ ~Has(l1.od, "A")
    /\ ~Has(l1.od, "B")
    /\ Len(l1.od) = 1
    /\ Head(l1.od).key = "C"
    /\ Head(l1.od).size = 60
    /\ l1.current_bytes = 60

\* the three puts have been made
C10_Witness == puts = 3 /\ Has(l1.od, "C") /\ l1.current_bytes <= l1_max_bytes

\* the bytes of the blobs of a directory
Total(b) == SumSizes(b, {k \in DOMAIN b : b[k].exists})

\* the blobs a step removes
Removed == {k \in DOMAIN blob : blob[k].exists /\ ~blob'[k].exists}

\* C11: a janitor pass that finds the blobs' total above the L2 cap ends
\* with the total at most 90% of the cap; it removes each blob together with
\* its metadata record and touches nothing else; the blobs removed are a
\* prefix of the blobs in ascending last_used order (none that stays is
\* older than one removed), and the shortest that reaches the target (before
\* the last removal the total was still above 90% of the cap).  With the
\* cap at 100 and five blobs of 30 bytes (cap 1000 and 300 bytes at a tenth
\* of the scale) it removes the two oldest.
C11_JanitorEvictsOldestPrefix ==
  [][(Janitor /\ Total(blob) > l2_max_bytes) =>
       /\ 10 * Total(blob') <= 9 * l2_max_bytes
       /\ \A k \in DOMAIN blob :
            IF k \in Removed
              THEN ~meta'[k].exists
              ELSE blob'[k] = blob[k] /\ meta'[k] = meta[k]
       /\ \A r \in Removed : \A k \in DOMAIN blob :
            blob'[k].exists => meta[r].last_used_ts <= meta[k].last_used_ts
       /\ \E r \in Removed :
            /\ \A q \in Removed : meta[q].last_used_ts <= meta[r].last_used_ts
            /\ 10 * (Total(blob') + ByteLen(blob[r].data)) > 9 * l2_max_bytes
       /\ ((\A k \in JanitorKeys : blob[k].exists /\ blob[k].data = "s")
            /\ meta["B"].last_used_ts < meta["C"].last_used_ts)
           => Removed = {"A", "B"}]_vars

\* a pass over a directory above the cap has ended: it removed the two
\* oldest blobs with their records and kept the three of 30 bytes used last
C11_Witness ==
  /\ DOMAIN blob = JanitorKeys
  /\ janitors = 0
  /\ \A k \in {"A", "B"} : ~blob[k].exists /\ ~meta[k].exists
  /\ \A k \in {"C", "D", "E"} : blob[k].exists /\ blob[k].data = "s" /\ meta[k].exists
  /\ meta["C"].last_used_ts < meta["E"].last_used_ts

\* C14: for every key, every step that writes one of its L2 files (the blob
\* or the metadata record; a janitor's removal is not a write) is the step
\* of a get_or_produce call that holds the key's lock and hands it back
\* after the write, so all the writes are ordered by the lock.
C14_L2WritesUnderLock ==
  [][\A key \in Keys :
       ((blob'[key] # blob[key] \/ meta'[key] # meta[key]) /\ meta'[key].exists)
         => \E i \in 1..Len(calls) :
              /\ calls[i].key = key
              /\ calls[i].pc = "producing"
              /\ Locked(calls, calls[i].lock)
              /\ \E data \in Blobs : Produced(i, data)]_vars

\* C15: when the caller whose call started the producer has been cancelled
\* while the producer runs, the producer is not cancelled, and a call that
\* waited for the same key's lock gets that invocation's result: it does not
\* invoke the producer again when it takes the lock.
C15_WaitersGetCancelledCallersResult ==
  [][\A i \in Calls :
       (/\ Resume(i)
        /\ \E j \in 1..Len(calls) : calls[j].pc = "orphan" /\ calls[j].key = calls[i].key)
         => ~(Len(calls') = Len(calls) /\ calls'[i].pc = "producing")]_vars

\* every call in progress is for another key and awaits its producer
OthersProducing(key) ==
  /\ calls # <<>>
  /\ \A j \in 1..Len(calls) : calls[j].key # key /\ calls[j].pc = "producing"

\* C20: calls for distinct keys never wait for each other's locks: no Lock
\* object serves two keys; a call for K2 that starts while the producers
\* of other keys are in flight returns from the cache or starts its own
\* producer at once; and its producer's return completes it while the
\* calls for other keys stay as they are, their producers still in flight.
C20_DistinctKeysIndependent ==
  [][/\ \A j, k \in 1..Len(calls') :
          calls'[j].lock = calls'[k].lock => calls'[j].key = calls'[k].key
     /\ \A key \in Keys :
          (Start(key, 1) /\ OthersProducing(key))
            => \/ calls' = calls /\ ret'.pc = "done" /\ ret'.key = key
               \/ /\ Len(calls') = Len(calls) + 1
                  /\ calls'[Len(calls')].key = key
                  /\ calls'[Len(calls')].pc = "producing"
                  /\ \A j \in 1..Len(calls) : calls'[j].pc = "producing"
     /\ \A i \in Calls, data \in Blobs :
          (/\ Produced(i, data)
           /\ \E j \in 1..Len(calls) : calls[j].key # calls[i].key /\ calls[j].pc = "producing")
            => /\ ret' = Ret("done", calls[i].key, calls[i].expiry_ts,
                             CacheResult(None, data, "img"), None, TRUE, FALSE)
               /\ Len(calls') = Len(calls) - 1
               /\ \A j \in 1..Len(calls) :
                    calls[j].key # calls[i].key
                      => LET j2 == IF j < i THEN j ELSE j - 1
                         IN /\ calls'[j2].key = calls[j].key
                            /\ calls'[j2].pc = calls[j].pc]_vars

\* the call for "A" that started at time 0 still awaits its producer, and a
\* call for "B" that started at time 1 has run its own producer and returned
C20_Witness ==
  /\ Len(calls) = 1
  /\ calls[1] = Call("producing", "A", 1, calls[1].lock)
  /\ ret.pc = "done" /\ ret.key = "B" /\ ret.invoked /\ ret.exp = 2
  /\ blob["B"].exists /\ ~blob["A"].exists

\* C12: when the process is killed during a production write, at any point
\* of it, the blob file is whole, either as it was before the write or as
\* the write makes it, and so is the metadata file; and the bytes a call
\* returns are always the whole bytes of one production, never a part or a
\* mixture.
C12_KilledWriteLeavesWholeFiles ==
  [][/\ \A i \in Calls, data \in Blobs, point \in Points :
          KilledInWrite(i, data, point)
            => /\ blob'[calls[i].key] \in
                    {blob[calls[i].key], [exists |-> TRUE, data |-> data, mtime |-> now]}
               /\ blob'[calls[i].key].data # "partial"
               /\ meta'[calls[i].key] \in
                    {meta[calls[i].key], StoredMeta(data, calls[i].expiry_ts, now, now)}
     /\ (ret'.pc = "done" /\ ret'.res.data # None) => ret'.res.data \in Blobs]_vars

\* the process was killed between the two renames of a write that replaced
\* an entry: the blob is the new one, the record still the old one, and the
\* temporary files are gone
C12_Witness ==
  /\ ret.pc = "killed" /\ ret.err = "blob"
  /\ blob["A"].exists /\ blob["A"].data = ret.res.data
  /\ meta["A"].exists /\ ~meta["A"].torn
  /\ meta["A"].byte_len # ByteLen(blob["A"].data)
  /\ tmp["A"] = NoTmp

\* C13: every cache operation changes an L2 file by writing a temporary file
\* and renaming it into place, so that at no time, a restart included, does
\* a blob or a metadata file hold a part of what was written to it.
C13_NoTornFile ==
  \A key \in Keys : blob[key].data # "partial" /\ ~meta[key].torn

\* A new process has started on the cache_dir and no operation has run in
\* it yet: L1 and the lock table are empty.
AfterRestart ==
  /\ ret.pc \in {"restarted", "killed"}
  /\ l1.od = <<>>
  /\ calls = <<>>
  /\ \A k \in Keys : locks[k] = 0

\* the L2 entry of key is there, readable and not expired
FreshInL2(key) ==
  /\ blob[key].exists
  /\ meta[key].exists /\ ~meta[key].torn
  /\ is_fresh(meta[key].expiry_ts)

\* the call returned the handle of the L2 entry, or its bytes if it has no
\* handle, and did not invoke the producer
ServedFromL2(key) ==
  /\ calls' = <<>>
  /\ ret'.pc = "done" /\ ret'.key = key /\ ~ret'.invoked
  /\ ret'.res = IF Truthy(meta[key].file_id)
                  THEN CacheResult(meta[key].file_id, None, "img")
                  ELSE CacheResult(None, blob[key].data, "img")

\* L1 has the entry: the handle, or the bytes, with the record's expiry
PromotedToL1(key) ==
  /\ Has(l1'.od, key)
  /\ Entry(l1'.od, key).expiry_ts = meta[key].expiry_ts
  /\ IF Truthy(meta[key].file_id)
       THEN Entry(l1'.od, key).file_id = meta[key].file_id
       ELSE Entry(l1'.od, key).data = blob[key].data

\* C16 as claimed: after a restart, get_or_produce for a key whose L2
\* entry is fresh returns the persisted handle or bytes without invoking
\* the producer, and L1 then has the entry.
C16_L2SurvivesRestart ==
  [][\A key \in Keys, ttl \in TTLs :
       (AfterRestart /\ FreshInL2(key) /\ Start(key, ttl))
         => ServedFromL2(key) /\ PromotedToL1(key)]_vars

\* C16 as amended: after a restart, get_or_produce for a key whose L2
\* entry is fresh returns the persisted handle or bytes without invoking
\* the producer; L1 then has the entry if the entry has a handle or its
\* bytes are no larger than the L1 byte cap.
C16_L2SurvivesRestart_Amended ==
  [][\A key \in Keys, ttl \in TTLs :
       (AfterRestart /\ FreshInL2(key) /\ Start(key, ttl))
         => /\ ServedFromL2(key)
            /\ (Truthy(meta[key].file_id) \/ ByteLen(blob[key].data) <= l1_max_bytes)
                 => PromotedToL1(key)]_vars

\* a call has returned, without invoking the producer, bytes it read from
\* the blob file, which are now in L1: as the bytes fit into L1, where the
\* call that produced them had put them, a restart has emptied L1 since
C16_Witness ==
  /\ ret.pc = "done" /\ ret.readBlob /\ ~ret.invoked
  /\ ByteLen(ret.res.data) <= l1_max_bytes
  /\ Len(l1.od) = 1
  /\ l1.od[1].data = blob[ret.key].data
  /\ l1.od[1].data = ret.res.data
  /\ l1.od[1].expiry_ts = meta[ret.key].expiry_ts

\* the metadata record of key is missing or json.loads raises on it
MetaUnusable(key) == ~meta[key].exists \/ meta[key].torn

\* C17: when the metadata record of a key is missing or unparsable, a
\* get_or_produce call that finds no fresh entry in L1 (and no other call
\* in its way) raises no error and invokes the producer, whether the blob
\* is there or not; and when the producer returns, the call writes the
\* new blob and a whole new record and returns the bytes.
C17_UnusableMetadataIsAMiss ==
  [][/\ \A key \in Keys, ttl \in TTLs :
          (/\ calls = <<>>
           /\ MetaUnusable(key)
           /\ ~L1Lookup(l1, key).hit
           /\ Start(key, ttl))
            => /\ Len(calls') = 1
               /\ calls'[1].pc = "producing" /\ calls'[1].key = key
               /\ calls'[1].expiry_ts = now + ttl
               /\ ret' = NoRet
               /\ blob' = blob /\ meta' = meta
     /\ \A i \in Calls, data \in Blobs :
          (Produced(i, data) /\ MetaUnusable(calls[i].key))
            => /\ ret'.pc = "done" /\ ret'.res.data = data /\ ret'.err = None
               /\ blob'[calls[i].key] = [exists |-> TRUE, data |-> data, mtime |-> now]
               /\ meta'[calls[i].key].exists /\ ~meta'[calls[i].key].torn
               /\ meta'[calls[i].key].full
               /\ meta'[calls[i].key].expiry_ts = calls[i].expiry_ts
               /\ meta'[calls[i].key].file_id = None
               /\ meta'[calls[i].key].byte_len = ByteLen(data)
               /\ meta'[calls[i].key].created_ts = now
               /\ meta'[calls[i].key].last_used_ts = now]_vars

\* a call that found the blob with an unparsable record has started the
\* producer
C17_Witness ==
  /\ Len(calls) = 1
  /\ calls[1].pc = "producing"
  /\ blob[calls[1].key].exists
  /\ meta[calls[1].key].torn
  /\ ret = NoRet

\* C18: when the write of the blob or of the metadata record fails after
\* the producer returned, the call gives its caller the error, L1 is as it
\* was (the bytes produced are not put into it), no janitor pass is
\* scheduled and the call's lock is released.
C18_WriteFailure ==
  [][\A i \in Calls, data \in Blobs, point \in FailPoints :
       WriteFails(i, data, point)
         => /\ ret'.pc = "failed" /\ ret'.err = "OSError" /\ ret'.key = calls[i].key
            /\ ret'.res = NoResult
            /\ l1' = l1
            /\ janitors' = janitors
            /\ LockReleased(i)
            /\ locks'[calls[i].key] = 0]_vars

\* the write of the record of a first production has failed: the caller has
\* the error, the blob is in place without a record, L1 is empty, no
\* janitor is pending and no call holds a lock
C18_Witness ==
  /\ ret.pc = "failed" /\ ret.err = "OSError"
  /\ blob["A"].exists /\ ~meta["A"].exists
  /\ tmp["A"].meta.exists
  /\ l1.od = <<>>
  /\ janitors = 0
  /\ calls = <<>>

\* two dicts of scalars have the same items, in whatever order
SameFlat(ps, qs) == {ps[i] : i \in 1..Len(ps)} = {qs[i] : i \in 1..Len(qs)}

\* two key_parts dicts are equal as Python dicts: the same keys with equal
\* values, whatever the insertion orders
SameDict(ps, qs) ==
  /\ Len(ps) = Len(qs)
  /\ \A i \in 1..Len(ps) : \E j \in 1..Len(qs) :
       /\ ps[i].k = qs[j].k
       /\ ps[i].v.scalar = qs[j].v.scalar
       /\ SameFlat(ps[i].v.items, qs[j].v.items)

\* C19: two key_parts mappings with the same key/value pairs, in whatever
\* insertion order, get the same canonical key string (the key of the L1
\* entry and of the lock) and the same blob and metadata file names.
C19_KeyIgnoresInsertionOrder ==
  (parts.applied /\ SameDict(parts.p, parts.q))
    => /\ parts.pkey = parts.qkey
       /\ digest(parts.pkey) = digest(parts.qkey)
       /\ parts.ppaths = parts.qpaths

\* the keys of two dicts that differ in the order of their items and of
\* the items of a nested dict have been computed
C19_Witness ==
  /\ parts.applied
  /\ SameDict(parts.p, parts.q)
  /\ Len(parts.p) = 2
  /\ parts.p[1].k # parts.q[1].k
  /\ \E i, j \in 1..2 :
       /\ parts.p[i].k = parts.q[j].k
       /\ Len(parts.p[i].v.items) = 2
       /\ parts.p[i].v.items # parts.q[j].v.items
  /\ parts.pkey = parts.qkey

\* the step ended a call with a put into L1 (of bytes produced, or read from
\* the blob) that took L1 over its cap, so that _evict ran
PutOverflowed ==
  /\ ret'.pc = "done"
  /\ ret'.invoked \/ ret'.readBlob
  /\ l1.current_bytes - Entry(l1.od, ret'.key).size + ByteLen(ret'.res.data) > l1_max_bytes

\* C21: no step removes an entry because it is stale.  An L1 entry
\* disappears only in a step whose put into L1 overflowed the cap (LRU
\* eviction); a blob or a metadata record disappears only in a janitor pass
\* that found the total above the L2 cap.
C21_StaleNotRemoved ==
  [][\A key \in Keys :
       /\ (Has(l1.od, key) /\ ~Has(l1'.od, key)) => PutOverflowed
       /\ ((blob[key].exists /\ ~blob'[key].exists) \/ (meta[key].exists /\ ~meta'[key].exists))
            => (Janitor /\ Total(blob) > l2_max_bytes)]_vars

\* a call has found the entry of its key expired in L1 and in L2 and has
\* started the producer: the expired L1 entry, blob and record are still
\* there
C21_Witness ==
  /\ Len(calls) = 1
  /\ calls[1].pc = "producing"
  /\ Has(l1.od, calls[1].key)
  /\ ~is_fresh(Entry(l1.od, calls[1].key).expiry_ts)
  /\ blob[calls[1].key].exists
  /\ meta[calls[1].key].exists
  /\ ~is_fresh(meta[calls[1].key].expiry_ts)

\* C22: whenever L1 and L2 both hold an entry of a key (the L1 entry, and
\* the blob with its metadata record), the L1 entry's bytes, when it has
\* bytes, are the blob's, and its handle and its expiry are the record's.
C22_L1AgreesWithL2 ==
  \A key \in Keys :
    (Has(l1.od, key) /\ blob[key].exists /\ meta[key].exists /\ ~meta[key].torn)
      => /\ Entry(l1.od, key).data # None => Entry(l1.od, key).data = blob[key].data
         /\ Entry(l1.od, key).file_id = meta[key].file_id
         /\ Entry(l1.od, key).expiry_ts = meta[key].expiry_ts

\* L1 has a fresh entry of key with a handle or with bytes
ServesFromL1(key) ==
  /\ Has(l1.od, key)
  /\ now < Entry(l1.od, key).expiry_ts
  /\ Truthy(Entry(l1.od, key).file_id) \/ Entry(l1.od, key).data # None

\* what the fresh entry that serves a call for key gives: its handle if it
\* has one, else its bytes; the L1 entry if L1 serves, else the L2 entry
ServedResult(key) ==
  IF ServesFromL1(key)
    THEN IF Truthy(Entry(l1.od, key).file_id)
           THEN CacheResult(Entry(l1.od, key).file_id, None, None)
           ELSE CacheResult(None, Entry(l1.od, key).data, None)
    ELSE IF Truthy(meta[key].file_id)
           THEN CacheResult(meta[key].file_id, None, "img")
           ELSE CacheResult(None, blob[key].data, "img")

\* C23: every result of get_or_produce has either a handle and no bytes or
\* bytes and no handle; a call that finds a fresh entry, at its start or
\* when it takes the lock, returns that entry's handle without bytes if the
\* entry has a handle, and else its bytes without a handle.
C23_HandleOrBytes ==
  [][/\ ret'.pc = "done"
          => \/ Truthy(ret'.res.file_id) /\ ret'.res.data = None
             \/ ret'.res.file_id = None /\ ret'.res.data # None
     /\ \A key \in Keys, ttl \in TTLs :
          (Start(key, ttl) /\ (ServesFromL1(key) \/ FreshInL2(key)))
            => ret'.pc = "done" /\ ret'.key = key /\ ret'.res = ServedResult(key)
     /\ \A i \in Calls :
          (Resume(i) /\ (ServesFromL1(calls[i].key) \/ FreshInL2(calls[i].key)))
            => /\ ret'.pc = "done" /\ ret'.key = calls[i].key
               /\ ret'.res = ServedResult(calls[i].key)]_vars

\* a call was served by an L1 entry that has both bytes and a handle, and
\* returned the handle without the bytes
C23_Witness ==
  /\ ret.pc = "done" /\ ~ret.invoked
  /\ Has(l1.od, ret.key)
  /\ Entry(l1.od, ret.key).data # None
  /\ Truthy(Entry(l1.od, ret.key).file_id)
  /\ ret.res = CacheResult(Entry(l1.od, ret.key).file_id, None, None)

\* C24: the janitor passes run one at a time, each from its scan to its
\* last deletion in one step: a pass leaves the total at or under the cap,
\* and a pending pass that runs when the total is at or under the cap
\* deletes nothing.
C24_PassesOneAfterAnother ==
  [][Janitor
       => /\ janitors' = janitors - 1
          /\ Total(blob') <= l2_max_bytes
          /\ Total(blob) <= l2_max_bytes => (blob' = blob /\ meta' = meta)]_vars

\* of the passes that were pending over a directory above the cap, one has
\* run and brought the total under the cap, and another is still to run
C24_Witness ==
  /\ janitors >= 1
  /\ \E k \in Keys : ~blob[k].exists /\ blob[CHOOSE j \in Keys : j # k].exists
  /\ Total(blob) <= l2_max_bytes
  /\ Total(blob) > 0

\* C25: a call whose producer returned gives its caller the bytes in the
\* step that creates the janitor task, before any pass runs: the task is
\* pending and the blob the call wrote is in place.  A janitor pass that
\* fails changes no call in progress, no lock, no L1 entry and no result,
\* and gives no caller an error.
C25_JanitorInBackground ==
  [][/\ \A i \in Calls, data \in Blobs :
          Produced(i, data)
            => /\ ret' = Ret("done", calls[i].key, calls[i].expiry_ts,
                             CacheResult(None, data, "img"), None, TRUE, FALSE)
               /\ janitors' = janitors + 1
               /\ blob'[calls[i].key] = [exists |-> TRUE, data |-> data, mtime |-> now]
               /\ \A k \in Keys : k # calls[i].key => blob'[k] = blob[k]
     /\ \A n \in 0..Cardinality(Keys) :
          JanitorFails(n)
            => ret' = ret /\ calls' = calls /\ locks' = locks /\ l1' = l1
     /\ ret'.err = None]_vars

\* a janitor pass has failed at an unlink after a call returned the bytes
\* it produced: the blob it could not unlink is left without its record,
\* and the call's result stands
C25_Witness ==
  /\ ret.pc = "done" /\ ret.invoked
  /\ janitors = 0
  /\ \E k \in Keys : blob[k].exists /\ ~meta[k].exists

\* C26: in every reachable state, each call that holds a per-key lock or
\* waits on one does so on the lock object that the lock table registers
\* for its key at that moment.
C26_CallsUseRegisteredLock ==
  \A i \in 1..Len(calls) :
    calls[i].pc \in {"waiting", "locked", "producing"}
      => locks[calls[i].key] = calls[i].lock

\* a call of get_or_produce for key is in progress: it has not returned,
\* failed or been cancelled (the producer thread of a cancelled call is not
\* a call)
InProgress(key) == \E i \in 1..Len(calls) : calls[i].key = key /\ calls[i].pc # "orphan"

\* C27: whenever no get_or_produce call is in progress for a key, every
\* call for it having returned, failed or been cancelled, the lock table has
\* no entry for the key.
C27_NoLockLeftBehind == \A key \in Keys : ~InProgress(key) => locks[key] = 0

\* calls have run and the last one to end was cancelled; none is in
\* progress, the producer of a cancelled call still runs in its thread, and
\* the lock table is empty
C27_Witness ==
  /\ ret.pc = "failed" /\ ret.err = "CancelledError"
  /\ calls # <<>>
  /\ ~InProgress("A")
  /\ blob["A"].exists
  /\ locks["A"] = 0

\* what a fresh L2 hit for key is claimed to do: the record's last_used_ts
\* becomes now, the call returns the record's handle, or the blob's bytes if
\* it has none, without the producer, and l1.put has stored the entry with
\* the record's expiry (put keeps an entry that fits the L1 byte cap)
L2HitEffect(key) ==
  /\ meta'[key].last_used_ts = now
  /\ ret'.pc = "done" /\ ret'.key = key /\ ~ret'.invoked
  /\ ret'.res = IF Truthy(meta[key].file_id)
                  THEN CacheResult(meta[key].file_id, None, "img")
                  ELSE CacheResult(None, blob[key].data, "img")
  /\ (Truthy(meta[key].file_id) \/ ByteLen(blob[key].data) <= l1_max_bytes)
       => PromotedToL1(key)

\* C28: a call that finds no fresh entry in L1 and a fresh entry in L2,
\* whether at its start before the lock or in the re-check once it has the
\* lock, sets the record's last_used_ts to now, promotes the entry into L1
\* with the record's expiry and returns without invoking the producer.
C28_EveryL2HitTouches ==
  [][/\ \A key \in Keys, ttl \in TTLs :
          (~ServesFromL1(key) /\ FreshInL2(key) /\ Start(key, ttl))
            => L2HitEffect(key)
     /\ \A i \in Calls :
          (i <= Len(calls) /\ ~ServesFromL1(calls[i].key) /\ FreshInL2(calls[i].key)
             /\ Resume(i))
            => L2HitEffect(calls[i].key)]_vars

\* after the step, call j holds its lock, no other call holds that lock,
\* and its key has no fresh entry in L1 and none in L2
GenuineMiss(j) ==
  LET c == calls'[j]
  IN /\ c.lock # 0
     /\ \A m \in 1..Len(calls') :
          (m # j /\ calls'[m].lock = c.lock) => calls'[m].pc = "waiting"
     /\ ~(Has(l1'.od, c.key) /\ now' < Entry(l1'.od, c.key).expiry_ts)
     /\ ~(/\ blob'[c.key].exists
          /\ meta'[c.key].exists /\ ~meta'[c.key].torn
          /\ now' < meta'[c.key].expiry_ts)

\* C29: in every step in which a call starts its producer, the one that
\* begins the call or the one that resumes it when it gets the lock, the
\* call holds its per-key lock and neither L1 nor L2 has a fresh entry of
\* its key.
C29_ProducerOnlyOnMiss ==
  [][/\ \A key \in Keys, ttl \in TTLs :
          (/\ Start(key, ttl)
           /\ Len(calls') > Len(calls)
           /\ calls'[Len(calls')].pc = "producing")
            => GenuineMiss(Len(calls'))
     /\ \A i \in Calls :
          (/\ Resume(i)
           /\ Len(calls') = Len(calls)
           /\ calls'[i].pc = "producing")
            => GenuineMiss(i)]_vars

\* a call is running its producer although both tiers have an entry of its
\* key: the entries have expired
C29_Witness ==
  /\ \E i \in 1..Len(calls) : calls[i].pc = "producing" /\ calls[i].key = "A"
  /\ Has(l1.od, "A") /\ now >= Entry(l1.od, "A").expiry_ts
  /\ blob["A"].exists /\ meta["A"].exists /\ now >= meta["A"].expiry_ts

\* the step creates one janitor task
Schedules == janitors' = janitors + 1

\* a step of get_or_produce that makes no production write: the call is
\* served from L1 or from L2, starts to wait or to produce, or its producer
\* fails
NoProductionWrite ==
  \/ \E key \in Keys, ttl \in TTLs : Start(key, ttl)
  \/ \E i \in Calls : Resume(i)
  \/ \E i \in Calls, err \in Errors : ProducerFails(i, err)

\* C30 as claimed: a janitor pass is scheduled by every production write
\* of get_or_produce and by every metadata write of remember_file_id, and
\* by no step of a call that makes neither.
C30_JanitorAfterEveryL2Write ==
  [][/\ \A i \in Calls, data \in Blobs : Produced(i, data) => Schedules
     /\ \A key \in Keys, file_id \in Handles, ttl \in TTLs :
          Remember(key, file_id, ttl) => Schedules
     /\ NoProductionWrite => janitors' = janitors]_vars

\* C30 as amended: a janitor pass is scheduled by every production write
\* of get_or_produce and by nothing else: not by remember_file_id, and not
\* by a step of get_or_produce that makes no production write.
C30_JanitorAfterEveryL2Write_Amended ==
  [][/\ \A i \in Calls, data \in Blobs : Produced(i, data) => Schedules
     /\ \A key \in Keys, file_id \in Handles, ttl \in TTLs :
          Remember(key, file_id, ttl) => janitors' = janitors
     /\ NoProductionWrite => janitors' = janitors]_vars

\* remember_file_id has written its record, after a production whose
\* janitor task is the only one pending
C30_Witness ==
  /\ ret.pc = "remembered"
  /\ meta["A"].exists /\ meta["A"].file_id = ret.res.file_id
  /\ blob["A"].exists
  /\ janitors = 1

\* C31: whenever the blobs' total is above the L2 cap, a janitor pass
\* eventually brings it to at most 90% of the cap, the janitor tasks being
\* scheduled fairly; also when the excess is found on disk by a process that
\* starts, or was left by a process killed after its blob write.
C31_ExcessEventuallyEvicted ==
  (Total(blob) > l2_max_bytes) ~> (Total(blob) <= target)

\* C32: a janitor pass that finds the blobs' total at or under the L2 cap
\* removes no blob and no metadata record and changes no file, whether the
\* entries have expired or not and whatever their last_used_ts.
C32_PassUnderCapChangesNothing ==
  [][(Janitor /\ Total(blob) <= l2_max_bytes)
       => (blob' = blob /\ meta' = meta /\ tmp' = tmp)]_vars

\* a pass has run over a directory under the cap that holds an expired
\* entry and a newer, unexpired one: both are still there
C32_Witness ==
  /\ janitors = 0
  /\ \E j, k \in Keys :
       /\ blob[j].exists /\ meta[j].exists /\ meta[j].expiry_ts <= now
       /\ blob[k].exists /\ meta[k].exists /\ meta[k].expiry_ts > now
       /\ meta[j].last_used_ts < meta[k].last_used_ts
  /\ Total(blob) <= l2_max_bytes

\* the time the janitor is to rank the blob of key by: the last_used_ts of
\* its record, or the blob's modification time when the record is missing
\* or cannot be parsed
RankTime(key) ==
  IF meta[key].exists /\ ~meta[key].torn THEN meta[key].last_used_ts ELSE blob[key].mtime

\* C33: a janitor pass over a directory above the cap ranks a blob whose
\* record is missing or corrupt by the blob's modification time (no blob it
\* leaves is older, by that rank, than one it removes), and a pass during
\* which a listed blob or record disappears skips that file and goes on: it
\* ends with the total at or under the cap.
C33_MissingFilesSkipped ==
  [][/\ Janitor
          => \A j, k \in Keys :
               (blob[j].exists /\ ~blob'[j].exists /\ blob'[k].exists)
                 => RankTime(j) <= RankTime(k)
     /\ \A k \in Keys, what \in {"blob", "meta"}, at \in {"scan", "evict"} :
          JanitorRaced(k, what, at) => Total(blob') <= l2_max_bytes]_vars

\* the place of key in the access order (1: accessed longest ago)
Pos(od, key) == CHOOSE j \in 1..Len(od) : od[j].key = key

\* the entries of od2 other than key are in od1 and in the order they have
\* in od1
OrderKept(od1, od2, key) ==
  \A j, k \in L1Keys :
    (j # key /\ k # key /\ Has(od2, j) /\ Has(od2, k))
      => /\ Has(od1, j) /\ Has(od1, k)
         /\ Pos(od1, j) < Pos(od1, k) <=> Pos(od2, j) < Pos(od2, k)

\* key is the most recently used entry
Newest(od, key) == od # <<>> /\ od[Len(od)].key = key

\* an access (get, set_file_id) of key leaves every entry in L1 and, when
\* key is there, makes it the most recently used one
Accessed(key) ==
  /\ Len(l1'.od) = Len(l1.od)
  /\ OrderKept(l1.od, l1'.od, key)
  /\ Has(l1.od, key) <=> Has(l1'.od, key)
  /\ Has(l1.od, key) => Newest(l1'.od, key)

\* the keys a put of key evicts, the key put included
Evicted(key) == {k \in L1Keys : (Has(l1.od, k) \/ k = key) /\ ~Has(l1'.od, k)}

\* a put of size bytes under key: key is the most recently used entry if it
\* stays; every entry evicted was accessed before every entry that stays
\* (key, just put, is the last to go); the total is at most the cap, and
\* was above it before the last eviction
PutEvictsOldest(key, size) ==
  /\ OrderKept(l1.od, l1'.od, key)
  /\ Has(l1'.od, key) => Newest(l1'.od, key)
  /\ key \in Evicted(key) => l1'.od = <<>>
  /\ \A j \in Evicted(key), k \in L1Keys :
       (Has(l1'.od, k) /\ k # key) => Pos(l1.od, j) < Pos(l1.od, k)
  /\ SumOfSizes(l1'.od) <= l1_max_bytes
  /\ Evicted(key) # {}
       => LET last == IF key \in Evicted(key) THEN key
                      ELSE CHOOSE j \in Evicted(key) :
                             \A k \in Evicted(key) : Pos(l1.od, k) <= Pos(l1.od, j)
              lastSize == IF last = key THEN size ELSE Entry(l1.od, last).size
          IN SumOfSizes(l1'.od) + lastSize > l1_max_bytes

\* C34: L1 evicts in the order of least recent access, over any sequence of
\* operations: get (of an expired entry too), put and set_file_id each make
\* their key the most recently used and keep the order of the others; a put
\* evicts the entries accessed longest ago, and no more of them than it
\* takes to bring the byte total to the cap.  (ret' tells which operation
\* the step is.)
C34_EvictsLeastRecentlyAccessed ==
  [][/\ ret'.pc \in {"got", "set"} => Accessed(ret'.key)
     /\ ret'.pc = "put" => PutEvictsOldest(ret'.key, ByteLen(ret'.res.data))]_vars

\* a get has returned an expired entry, which is now the most recently
\* used of three
C34_Witness ==
  /\ ret.pc = "got" /\ ret.res # NoResult
  /\ ret.exp <= now
  /\ Len(l1.od) = 3
  /\ Newest(l1.od, ret.key)
  /\ Entry(l1.od, ret.key).expiry_ts <= now

\* the step is a put of bytes larger than the whole L1 cap
OversizedPut == ret'.pc = "put" /\ ByteLen(ret'.res.data) > l1_max_bytes

\* C35 as claimed: a put of an entry larger than the whole L1 cap evicts
\* every other entry at once and leaves the oversized entry in L1, alone;
\* the put of the next entry then evicts it.
C35_OversizedStaysUntilNext ==
  [][/\ OversizedPut
          => /\ Len(l1'.od) = 1
             /\ l1'.od[1].key = ret'.key
             /\ l1'.od[1].data = ret'.res.data
     /\ ret'.pc = "put"
          => \A k \in L1Keys :
               (k # ret'.key /\ Has(l1.od, k) /\ Entry(l1.od, k).size > l1_max_bytes)
                 => ~Has(l1'.od, k)]_vars

\* C35 as amended: a put of an entry larger than the whole L1 cap evicts
\* every entry at once, the oversized one included: L1 is empty and its
\* byte counter is 0, so no entry of L1 is ever larger than the cap.
C35_OversizedStaysUntilNext_Amended ==
  [][/\ OversizedPut => (l1'.od = <<>> /\ l1'.current_bytes = 0)
     /\ \A k \in L1Keys : Has(l1'.od, k) => Entry(l1'.od, k).size <= l1_max_bytes]_vars

\* the latest operation was a put of 120 bytes, and L1 is empty
C35_Witness ==
  /\ ret.pc = "put" /\ ret.res.data = "big"
  /\ l1.od = <<>>
  /\ l1.current_bytes = 0

\* C36: the entry a production writes has not expired when it is written:
\* in the step in which a call stores what its producer returned, the
\* expiry_ts of the metadata record it writes, and of the L1 entry it puts,
\* is later than the time of the write, however long the call waited for
\* its lock and the producer ran.
C36_WrittenEntryIsFresh ==
  [][\A i \in Calls, data \in Blobs :
       (i <= Len(calls) /\ Produced(i, data))
         => /\ now' < meta'[calls[i].key].expiry_ts
            /\ Has(l1'.od, calls[i].key) => now' < Entry(l1'.od, calls[i].key).expiry_ts]_vars

\* remember_file_id has just run for the key of call i, whose producer was
\* in flight then and still is
RememberedInFlight(i) ==
  /\ i <= Len(calls)
  /\ calls[i].pc = "producing"
  /\ ret.pc = "remembered" /\ ret.key = calls[i].key

\* C37: a handle that remember_file_id attached while a production of the
\* same key was in flight is still there when the production has
\* completed: the metadata record and the L1 entry of the key carry the
\* handle.
C37_HandleSurvivesProduction ==
  [][\A i \in Calls, data \in Blobs :
       (RememberedInFlight(i) /\ Produced(i, data))
         => /\ meta'[calls[i].key].file_id = ret.res.file_id
            /\ Has(l1'.od, calls[i].key)
                 => Entry(l1'.od, calls[i].key).file_id = ret.res.file_id]_vars

\* C38: in every reachable state, after any sequence of get_or_produce,
\* remember_file_id and janitor passes, every metadata record in the cache
\* directory has the blob of its key beside it.
C38_EveryRecordHasItsBlob ==
  \A key \in Keys : meta[key].exists => blob[key].exists

\* no call of get_or_produce is in progress: none waits for a lock, holds
\* one or awaits its producer
NoCallInProgress == \A i \in 1..Len(calls) : calls[i].pc = "orphan"

\* C39: every get_or_produce call completes, by a result or an exception,
\* when every producer invocation terminates and the loop runs every ready
\* task: of the NumCalls calls made, on one key or two, none is left
\* waiting on a lock for ever, whatever the producers' failures, the
\* cancellations and the removals from the lock table in between.
C39_EveryCallCompletes == <>[]NoCallInProgress

\* all NumCalls calls have ended, one of them cancelled and one with a
\* result
C39_Witness ==
  /\ calls = <<>>
  /\ Len(done) = NumCalls
  /\ \E j \in 1..Len(done) : done[j].err = "CancelledError"
  /\ \E j \in 1..Len(done) : done[j].pc = "done"

\* C40: in every reachable state of L1, after any sequence of put (insert
\* or replace), set_file_id, get and the evictions they cause, the byte
\* counter is the sum of the sizes of the entries present, the size of an
\* entry being the length of its bytes, 0 when it has a handle only.
C40_CounterIsSumOfSizes ==
  /\ l1.current_bytes = SumOfSizes(l1.od)
  /\ \A j \in 1..Len(l1.od) :
       l1.od[j].size = (IF l1.od[j].data = None THEN 0 ELSE ByteLen(l1.od[j].data))

\* L1 holds three entries, 90 bytes in all: a handle-only entry, an entry
\* of 30 bytes to which set_file_id gave a handle, and the entry of 60 bytes
\* just put
C40_Witness ==
  /\ Len(l1.od) = 3
  /\ l1.current_bytes = 90
  /\ ret.pc = "put" /\ ret.res.data = "x"
  /\ \E j \in 1..3 : l1.od[j].data = None /\ l1.od[j].file_id = "h1"
  /\ \E j \in 1..3 : l1.od[j].data = "s" /\ l1.od[j].file_id = "h2"

====
